---- MODULE Spec2Model ----
(***************************************************************************)
(* Model of src/app_azure.py: the Teams bot that fronts Databricks Genie.  *)
(*                                                                         *)
(* State: the bot's session tables (sign-in tokens, conversations,         *)
(* preferences), the token manager's cache of exchanged tokens, the two    *)
(* bounded artifact stores with their counters, the wall clock, and the    *)
(* position and locals of every message handler in flight.                 *)
(*                                                                         *)
(* Specifications:                                                         *)
(*   Spec       the bot: concurrent turns (messages, sign-in invokes),     *)
(*              interleaved at the handlers' await points;                 *)
(*   SpecToken  the token manager driven through its two operations while  *)
(*              the clock advances;                                        *)
(*   SpecStore  the artifact stores driven through _store_result,          *)
(*              store_chart, get_chart and the result lookup, with the     *)
(*              capacities of the source (50 and 100);                     *)
(*   SpecParse  parse_viz_spec applied to texts drawn from a bounded set;  *)
(*   SpecChart  ChartGenerator.generate applied to bounded specs and data; *)
(*   SpecPage   the result views (pagination, view data, interactive       *)
(*              chart) over a store filled past its capacity;              *)
(*   SpecLoop   the bot as in Spec with the chart render as a step of its  *)
(*              own that occupies the thread of the event loop;            *)
(*   SpecLeak   the text a user is sent after a failed Genie call, for     *)
(*              pairs of failures that differ in the internal message.    *)
(***************************************************************************)
EXTENDS Integers, Sequences, FiniteSets, TLC

VARIABLES
    user_tokens,         \* GenieBot.user_tokens: user id -> Teams sign-in token
    tm_user_tokens,      \* UserTokenManager.user_tokens: user id -> {token, expires_at}
    user_conversations,  \* GenieBot.user_conversations: user id -> conversation id
    user_preferences,    \* GenieBot.user_preferences: user id -> {show_sql}
    query_results,       \* GenieBot.query_results, in insertion order
    _result_counter,     \* GenieBot._result_counter
    chart_images,        \* GenieBot.chart_images, in insertion order
    _chart_counter,      \* GenieBot._chart_counter
    now,                 \* datetime.now().timestamp(), in seconds
    handlers,            \* the _handle_message invocations: position and locals
    turns,               \* how many turns (activities) the adapter has started
    input,               \* the argument of the pure function a specification exercises
    issued,              \* history: the counter values of the ids each store has returned
    last                 \* history: the operation that produced this state, and its outcome

vars == <<user_tokens, tm_user_tokens, user_conversations, user_preferences,
          query_results, _result_counter, chart_images, _chart_counter,
          now, handlers, turns, input, issued, last>>

storeVars == <<query_results, _result_counter, chart_images, _chart_counter>>
sessionVars == <<user_tokens, tm_user_tokens, user_conversations, user_preferences>>

-----------------------------------------------------------------------------
(* Python values *)

\* None, for a string-valued or id-valued expression.
None == "None"

\* An optional value whose present form is not a string: the empty set is None.
Nothing == {}
Some(v) == {v}

\* A dict is a function whose domain is the set of keys present.
EmptyDict == [k \in {} |-> None]

\* d.pop(k, None) and "if k in d: del d[k]": the dict without key k.
DictPop(d, k) == [x \in DOMAIN d \ {k} |-> d[x]]

\* d[k] = v
DictSet(d, k, v) == [x \in DOMAIN d \cup {k} |-> IF x = k THEN v ELSE d[x]]

\* d.get(k, default)
DictGet(d, k, default) == IF k \in DOMAIN d THEN d[k] ELSE default

-----------------------------------------------------------------------------
(* Artifact stores: an insertion-ordered dict is the sequence of its items *)

\* len(self.query_results) > 50 and list(...)[:-50]
ResultCapacity == 50
\* len(self.chart_images) > 100 and list(...)[:-100]
ChartCapacity == 100

\* How many puts beyond each capacity SpecStore explores.
StorePutsOver == 3

\* f"result_{n}" and f"chart_{n}": the prefix and the counter's value.
ResultId(n) == <<"result", n>>
ChartId(n) == <<"chart", n>>

\* list(d.keys())
Keys(store) == [i \in 1..Len(store) |-> store[i].key]

KeySet(store) == {store[i].key : i \in 1..Len(store)}

\* d[key] = value on a dict that may already hold the key: a held key keeps
\* its position, a new key goes last.
OrderedSet(store, key, value) ==
    IF key \in KeySet(store)
    THEN [i \in 1..Len(store) |->
            IF store[i].key = key THEN [key |-> key, value |-> value] ELSE store[i]]
    ELSE Append(store, [key |-> key, value |-> value])

\* keys[:-n] for n >= 1: all but the last n keys.
AllButLast(keys, n) == SubSeq(keys, 1, Len(keys) - n)

\* for key in oldest_keys: del d[key]
DeleteKeys(store, keys) ==
    LET dead == {keys[i] : i \in 1..Len(keys)}
    IN  SelectSeq(store, LAMBDA item : item.key \notin dead)

\* d.get(key): the value, or None.
OrderedGet(store, key) ==
    IF key \in KeySet(store)
    THEN Some((CHOOSE item \in {store[i] : i \in 1..Len(store)} : item.key = key).value)
    ELSE Nothing

\* _store_result with the slice taken from the wrong end: the newest keys go.
Mutant_store_result_KeepsOldest(store, counter, result) ==
    LET c == counter + 1
        added == OrderedSet(store, ResultId(c), result)
    IN  [store |-> SubSeq(added, 1, IF Len(added) > ResultCapacity
                                    THEN ResultCapacity ELSE Len(added)),
         counter |-> c, id |-> ResultId(c)]

\* _store_result that numbers the result and leaves the counter as it was.
Mutant_store_result_CounterKept(store, counter, result) ==
    LET c == counter + 1
        added == OrderedSet(store, ResultId(c), result)
        oldest_keys == IF Len(added) > ResultCapacity
                       THEN AllButLast(Keys(added), ResultCapacity)
                       ELSE <<>>
    IN  [store |-> DeleteKeys(added, oldest_keys), counter |-> counter, id |-> ResultId(c)]

\* GenieBot._store_result: the store and the counter after the call, and the id returned.
_store_result(store, counter, result) ==
    LET c == counter + 1
        result_id == ResultId(c)
        added == OrderedSet(store, result_id, result)
        oldest_keys == IF Len(added) > ResultCapacity
                       THEN AllButLast(Keys(added), ResultCapacity)
                       ELSE <<>>
    IN  [store |-> DeleteKeys(added, oldest_keys), counter |-> c, id |-> result_id]

\* store_chart numbering a chart by the size of the store instead of the counter.
Mutant_store_chart_IdFromSize(store, counter, chart_base64) ==
    LET c == Len(store) + 1
        added == OrderedSet(store, ChartId(c), chart_base64)
        oldest_keys == IF Len(added) > ChartCapacity
                       THEN AllButLast(Keys(added), ChartCapacity)
                       ELSE <<>>
    IN  [store |-> DeleteKeys(added, oldest_keys), counter |-> counter + 1,
         id |-> ChartId(c)]

\* GenieBot.store_chart
store_chart(store, counter, chart_base64) ==
    LET c == counter + 1
        chart_id == ChartId(c)
        added == OrderedSet(store, chart_id, chart_base64)
        oldest_keys == IF Len(added) > ChartCapacity
                       THEN AllButLast(Keys(added), ChartCapacity)
                       ELSE <<>>
    IN  [store |-> DeleteKeys(added, oldest_keys), counter |-> c, id |-> chart_id]

\* GenieBot.get_chart
get_chart(store, chart_id) == OrderedGet(store, chart_id)

\* "result_id in self.query_results" followed by self.query_results[result_id],
\* and BOT.query_results.get(result_id)
get_result(store, result_id) == OrderedGet(store, result_id)

\* A stored query result and a stored chart image, as the handler passes them.
SampleResult ==
    [text |-> "Sales by region", sql |-> "SELECT 1", has_data |-> TRUE,
     conversation_id |-> "c1", suggested |-> FALSE, error |-> FALSE, viz_spec |-> TRUE]
SampleChart == "iVBORw0KGgo="

InitStores ==
    /\ query_results = <<>>
    /\ _result_counter = 0
    /\ chart_images = <<>>
    /\ _chart_counter = 0
    /\ issued = [result |-> <<>>, chart |-> <<>>]

-----------------------------------------------------------------------------
(* UserTokenManager: on-behalf-of exchange with a cache *)

Users == {"u1", "u2"}

\* The Teams sign-in token (the assertion) of a user, and the Databricks
\* tokens the identity provider issues for an assertion.
TeamsToken(u) == <<"teams", u>>
DatabricksToken(u, serial) == <<"dbx", u, serial>>
NoToken == <<>>

\* "expires_at: now + expires_in - 60  # 60s buffer"
ExpiryBuffer == 60
\* result.get("expires_in", 3600)
DefaultExpiresIn == 3600

\* The clock stops at MaxNow.
MaxNow == 2

\* What msal's acquire_token_on_behalf_of can do with an assertion: return a
\* token (with an expires_in, or with none: Nothing), return an error result,
\* or raise. elapsed is the time the blocking call takes.
OboOutcomes(user_token, serials, lifetimes, delays) ==
    {[kind |-> "token", access_token |-> DatabricksToken(user_token[2], k),
      expires_in |-> e, elapsed |-> d] :
        k \in serials, e \in lifetimes, d \in delays}
    \cup {[kind |-> k, access_token |-> NoToken, expires_in |-> Nothing, elapsed |-> d] :
        k \in {"error", "raise"}, d \in delays}

\* The expiry test with >= for >.
Mutant_CachedTokenValid_Inclusive(cache, user_id, t) ==
    /\ user_id \in DOMAIN cache
    /\ cache[user_id].expires_at >= t

\* "cached and cached.get('expires_at', 0) > datetime.now().timestamp()"
CachedTokenValid(cache, user_id, t) ==
    /\ user_id \in DOMAIN cache
    /\ cache[user_id].expires_at > t

\* The exchange without its cache check: the provider is called every time.
Mutant_exchange_NoCacheCheck(cache, user_id, user_token, t, obo) ==
    IF obo.kind = "token"
    THEN LET expires_in == IF obo.expires_in = Nothing
                           THEN DefaultExpiresIn
                           ELSE CHOOSE x \in obo.expires_in : TRUE
             entry == [token |-> obo.access_token,
                       expires_at |-> (t + obo.elapsed) + expires_in - ExpiryBuffer]
         IN  [cache |-> DictSet(cache, user_id, entry), ret |-> obo.access_token,
              external |-> TRUE, now |-> t + obo.elapsed]
    ELSE [cache |-> cache, ret |-> NoToken, external |-> TRUE, now |-> t + obo.elapsed]

\* The exchange falling back to the cached token, expired or not, when the
\* provider fails.
Mutant_exchange_StaleOnFailure(cache, user_id, user_token, t, obo) ==
    IF user_id \in DOMAIN cache /\ (cache[user_id].expires_at > t \/ obo.kind /= "token")
    THEN [cache |-> cache, ret |-> cache[user_id].token,
          external |-> ~(cache[user_id].expires_at > t), now |-> t]
    ELSE IF obo.kind = "token"
    THEN LET expires_in == IF obo.expires_in = Nothing
                           THEN DefaultExpiresIn
                           ELSE CHOOSE x \in obo.expires_in : TRUE
             entry == [token |-> obo.access_token,
                       expires_at |-> (t + obo.elapsed) + expires_in - ExpiryBuffer]
         IN  [cache |-> DictSet(cache, user_id, entry), ret |-> obo.access_token,
              external |-> TRUE, now |-> t + obo.elapsed]
    ELSE [cache |-> cache, ret |-> NoToken, external |-> TRUE, now |-> t + obo.elapsed]

\* UserTokenManager.exchange_for_databricks_token at time t, with obo the
\* outcome of the identity provider should it be called: the cache and the
\* clock afterwards, the value returned, and whether the provider was called.
exchange_for_databricks_token(cache, user_id, user_token, t, obo) ==
    IF CachedTokenValid(cache, user_id, t)
    THEN [cache |-> cache, ret |-> cache[user_id].token, external |-> FALSE, now |-> t]
    ELSE IF obo.kind = "token"
    THEN LET expires_in == IF obo.expires_in = Nothing
                           THEN DefaultExpiresIn
                           ELSE CHOOSE x \in obo.expires_in : TRUE
             entry == [token |-> obo.access_token,
                       expires_at |-> (t + obo.elapsed) + expires_in - ExpiryBuffer]
         IN  [cache |-> DictSet(cache, user_id, entry), ret |-> obo.access_token,
              external |-> TRUE, now |-> t + obo.elapsed]
    ELSE [cache |-> cache, ret |-> NoToken, external |-> TRUE, now |-> t + obo.elapsed]

\* clear_user_token emptying the whole cache.
Mutant_clear_user_token_All(cache, user_id) == EmptyDict

\* UserTokenManager.clear_user_token
clear_user_token(cache, user_id) ==
    IF user_id \in DOMAIN cache THEN DictPop(cache, user_id) ELSE cache

-----------------------------------------------------------------------------
(* SpecToken: the token manager driven through its two operations *)

TokenSerials == {1, 2}
TokenLifetimes == {Some(59), Some(60), Some(61), Some(62), Nothing}
TokenDelays == {0, 1}

InitSession ==
    /\ user_tokens = EmptyDict
    /\ tm_user_tokens = EmptyDict
    /\ user_conversations = EmptyDict
    /\ user_preferences = EmptyDict

Exchange(user_id) ==
    \E obo \in OboOutcomes(TeamsToken(user_id), TokenSerials, TokenLifetimes, TokenDelays) :
        LET r == exchange_for_databricks_token(tm_user_tokens, user_id,
                                               TeamsToken(user_id), now, obo)
        IN  /\ r.now <= MaxNow
            /\ tm_user_tokens' = r.cache
            /\ now' = r.now
            /\ last' = [op |-> "exchange", user_id |-> user_id, ret |-> r.ret,
                        external |-> r.external,
                        outcome |-> IF r.external THEN obo.kind ELSE "cached",
                        expires_in |-> obo.expires_in,
                        at |-> now,
                        before |-> IF user_id \in DOMAIN tm_user_tokens
                                   THEN Some(tm_user_tokens[user_id]) ELSE Nothing]
            /\ UNCHANGED <<input, user_tokens, user_conversations, user_preferences,
                           storeVars, issued, handlers, turns>>

Clear(user_id) ==
    /\ tm_user_tokens' = clear_user_token(tm_user_tokens, user_id)
    /\ last' = [op |-> "clear", user_id |-> user_id, at |-> now,
                cache_before |-> tm_user_tokens]
    /\ UNCHANGED <<input, user_tokens, user_conversations, user_preferences,
                   storeVars, issued, handlers, turns, now>>

\* Time passes.
Tick ==
    /\ now < MaxNow
    /\ now' = now + 1
    /\ last' = [op |-> "tick"]
    /\ UNCHANGED <<input, sessionVars, storeVars, issued, handlers, turns>>

NextToken ==
    \/ \E u \in Users : Exchange(u)
    \/ \E u \in Users : Clear(u)
    \/ Tick

-----------------------------------------------------------------------------
(* GenieClient: what a call to Genie returns to the handler *)

ConversationIds == {"c1", "c2"}

\* A text is the sequence of its tokens: a marker, a word, a colon, a comma,
\* a blank or a line break. A word holds no blank, colon, comma or marker and
\* no field name as a proper part.
SP == " "
NL == "\n"
VizStart == "[VIZ_START]"
VizEnd == "[VIZ_END]"

\* Response texts, and the text GenieClient puts in an error result.
TextPlain == <<"Top", SP, "regions">>
TextWithViz ==
    <<"Top", SP, "regions", SP, VizStart, SP, "chart_type", ":", SP, "bar", SP,
      "x_axis", ":", SP, "Region", SP, "y_axis", ":", SP, "Sales", SP, VizEnd>>
TextVizOnly ==
    <<VizStart, SP, "chart_type", ":", SP, "bar", SP, "x_axis", ":", SP, "Region", SP,
      "y_axis", ":", SP, "Sales", SP, VizEnd>>
TextVizIncomplete ==
    <<"Top", SP, "regions", SP, VizStart, SP, "chart_type", ":", SP, "bar", SP, VizEnd>>
TextRaised == <<"Sorry", SP, "error", ":", SP, "403">>
TextFailed == <<"Query", SP, "failed">>

\* str.lower() on a token.
lower(tok) ==
    CASE tok = "[VIZ_START]" -> "[viz_start]"
      [] tok = "[VIZ_END]" -> "[viz_end]"
      [] tok = "[Viz_End]" -> "[viz_end]"
      [] tok = "Chart_Type" -> "chart_type"
      [] tok = "X_AXIS" -> "x_axis"
      [] tok = "Color" -> "color"
      [] tok = "Region" -> "region"
      [] tok = "REGION" -> "region"
      [] tok = "Sales" -> "sales"
      [] tok = "Total" -> "total"
      [] tok = "Profit" -> "profit"
      [] tok = "Top" -> "top"
      [] tok = "Other" -> "other"
      [] tok = "PIE" -> "pie"
      [] tok = "DESC" -> "desc"
      [] tok = "Nonexistent" -> "nonexistent"
      [] tok = "Reg" -> "reg"
      [] OTHER -> tok

\* str.lower() on a text.
LowerAll(seq) == [i \in 1..Len(seq) |-> lower(seq[i])]

\* \s of the regular expressions, and str.strip().
IsSpace(tok) == tok \in {SP, NL}

strip(seq) ==
    LET solid == {i \in 1..Len(seq) : ~IsSpace(seq[i])}
    IN  IF solid = {} THEN <<>>
        ELSE SubSeq(seq, CHOOSE i \in solid : \A j \in solid : i <= j,
                         CHOOSE i \in solid : \A j \in solid : i >= j)

\* The first position from i on that holds no white space (Len + 1 if none).
SkipSpaces(seq, i) ==
    LET rest == {j \in i..Len(seq) : ~IsSpace(seq[j])}
    IN  IF rest = {} THEN Len(seq) + 1 ELSE CHOOSE j \in rest : \A k \in rest : j <= k

\* re.search(r'\[VIZ_START\](.*?)\[VIZ_END\]', text, DOTALL | IGNORECASE) from
\* position from on: the positions of the two markers of the leftmost match,
\* the end marker being the first one after the start marker; <<0, 0>> if none.
SearchBlock(text, from) ==
    LET ends(i) == {j \in (i + 1)..Len(text) : lower(text[j]) = "[viz_end]"}
        starts == {i \in from..Len(text) : lower(text[i]) = "[viz_start]" /\ ends(i) /= {}}
    IN  IF starts = {} THEN <<0, 0>>
        ELSE LET i == CHOOSE a \in starts : \A b \in starts : a <= b
             IN  <<i, CHOOSE a \in ends(i) : \A b \in ends(i) : a <= b>>

\* re.sub(pattern, '', text): every match is removed, left to right.
RECURSIVE SubBlocks(_)
SubBlocks(text) ==
    LET m == SearchBlock(text, 1)
    IN  IF m = <<0, 0>> THEN text
        ELSE SubSeq(text, 1, m[1] - 1) \o SubBlocks(SubSeq(text, m[2] + 1, Len(text)))

\* str.split(sep): the pieces between the separators.
RECURSIVE Split(_, _)
Split(seq, sep) ==
    LET at == {i \in 1..Len(seq) : seq[i] = sep}
    IN  IF at = {} THEN <<seq>>
        ELSE LET i == CHOOSE a \in at : \A b \in at : a <= b
             IN  <<SubSeq(seq, 1, i - 1)>> \o Split(SubSeq(seq, i + 1, Len(seq)), sep)

known_fields == <<"chart_type", "x_label", "y_label", "x_axis", "y_axis", "title", "sort">>
required_fields == <<"chart_type", "x_axis", "y_axis">>

\* The key a field name is in a spec: the text of the name.
KeyOf(field) == <<field>>

\* The multi-line layout keeping the case of the keys.
RECURSIVE Mutant_ParseLines_KeepsCase(_, _)
Mutant_ParseLines_KeepsCase(lines, spec) ==
    IF lines = <<>> THEN spec
    ELSE LET line == strip(Head(lines))
             parts == Split(line, ":")
             key == IF LowerAll(strip(parts[1])) \in {<<"chart_type">>, <<"x_axis">>, <<"y_axis">>}
                    THEN LowerAll(strip(parts[1])) ELSE strip(parts[1])
             value == strip(SubSeq(line, Len(parts[1]) + 2, Len(line)))
         IN  Mutant_ParseLines_KeepsCase(Tail(lines),
                        IF Len(parts) > 1 THEN DictSet(spec, key, value) ELSE spec)

\* The multi-line layout: every line with a colon sets the key before the
\* first colon, stripped and lower-cased, to the stripped rest of the line.
RECURSIVE ParseLines(_, _)
ParseLines(lines, spec) ==
    IF lines = <<>> THEN spec
    ELSE LET line == strip(Head(lines))
             parts == Split(line, ":")
             key == LowerAll(strip(parts[1]))
             value == strip(SubSeq(line, Len(parts[1]) + 2, Len(line)))
         IN  ParseLines(Tail(lines),
                        IF Len(parts) > 1 THEN DictSet(spec, key, value) ELSE spec)

\* "field\s*:" at position p of the block.
FieldAt(block, p, field) ==
    /\ p \in 1..Len(block)
    /\ lower(block[p]) = field
    /\ SkipSpaces(block, p + 1) <= Len(block)
    /\ block[SkipSpaces(block, p + 1)] = ":"

\* The lookahead "(?=\s+(?:other fields)\s*:|$)" after position e.
LookaheadAt(block, e, field) ==
    \/ e = Len(block)
    \/ /\ IsSpace(block[e + 1])
       /\ \E i \in 1..Len(known_fields) :
             /\ known_fields[i] /= field
             /\ FieldAt(block, SkipSpaces(block, e + 1), known_fields[i])

\* The field's value captured to the end of the block.
Mutant_FieldMatch_Greedy(block, field) ==
    LET value_start(p) == SkipSpaces(block, SkipSpaces(block, p + 1) + 1)
        at == {p \in 1..Len(block) : FieldAt(block, p, field) /\ value_start(p) <= Len(block)}
    IN  IF at = {} THEN Nothing
        ELSE LET p == CHOOSE a \in at : \A b \in at : a <= b
             IN  Some(strip(SubSeq(block, value_start(p), Len(block))))

\* re.search(rf'{field}\s*:\s*(.+?)(?=...)', viz_block, IGNORECASE): group 1
\* of the leftmost match, stripped; Nothing without a match.
FieldMatch(block, field) ==
    LET value_start(p) == SkipSpaces(block, SkipSpaces(block, p + 1) + 1)
        at == {p \in 1..Len(block) : FieldAt(block, p, field) /\ value_start(p) <= Len(block)}
    IN  IF at = {} THEN Nothing
        ELSE LET p == CHOOSE a \in at : \A b \in at : a <= b
                 c == value_start(p)
                 stops == {e \in c..Len(block) : LookaheadAt(block, e, field)}
                 e == CHOOSE a \in stops : \A b \in stops : a <= b
             IN  Some(strip(SubSeq(block, c, e)))

\* The single-line layout: each known field that matches sets its key.
RECURSIVE ParseFields(_, _, _)
ParseFields(block, i, spec) ==
    IF i > Len(known_fields) THEN spec
    ELSE LET found == FieldMatch(block, known_fields[i])
         IN  ParseFields(block, i + 1,
                         IF found = Nothing THEN spec
                         ELSE DictSet(spec, KeyOf(known_fields[i]),
                                      CHOOSE v \in found : TRUE))

\* The spec with the first required field missing.
Mutant_parse_viz_spec_Partial(text) ==
    LET m == SearchBlock(text, 1)
        viz_block == strip(SubSeq(text, m[1] + 1, m[2] - 1))
        spec == IF NL \in {viz_block[i] : i \in 1..Len(viz_block)}
                THEN ParseLines(Split(viz_block, NL), EmptyDict)
                ELSE ParseFields(viz_block, 1, EmptyDict)
    IN  IF text = <<>> \/ m = <<0, 0>> \/ DOMAIN spec = {}
        THEN [viz_spec |-> Nothing, clean_text |-> text]
        ELSE [viz_spec |-> Some(spec), clean_text |-> strip(SubBlocks(text))]

\* The parser removing only the block it parsed.
Mutant_parse_viz_spec_FirstOnly(text) ==
    LET m == SearchBlock(text, 1)
        viz_block == strip(SubSeq(text, m[1] + 1, m[2] - 1))
        spec == IF NL \in {viz_block[i] : i \in 1..Len(viz_block)}
                THEN ParseLines(Split(viz_block, NL), EmptyDict)
                ELSE ParseFields(viz_block, 1, EmptyDict)
    IN  IF text = <<>> \/ m = <<0, 0>>
           \/ \E i \in 1..Len(required_fields) : KeyOf(required_fields[i]) \notin DOMAIN spec
        THEN [viz_spec |-> Nothing, clean_text |-> text]
        ELSE [viz_spec |-> Some(spec),
              clean_text |-> strip(SubSeq(text, 1, m[1] - 1)
                                   \o SubSeq(text, m[2] + 1, Len(text)))]

\* parse_viz_spec: the spec (Nothing for None) and the text returned with it.
parse_viz_spec(text) ==
    LET m == SearchBlock(text, 1)
        viz_block == strip(SubSeq(text, m[1] + 1, m[2] - 1))
        spec == IF NL \in {viz_block[i] : i \in 1..Len(viz_block)}
                THEN ParseLines(Split(viz_block, NL), EmptyDict)
                ELSE ParseFields(viz_block, 1, EmptyDict)
    IN  IF text = <<>> \/ m = <<0, 0>>
           \/ \E i \in 1..Len(required_fields) : KeyOf(required_fields[i]) \notin DOMAIN spec
        THEN [viz_spec |-> Nothing, clean_text |-> text]
        ELSE [viz_spec |-> Some(spec), clean_text |-> strip(SubBlocks(text))]

\* parse_viz_spec on the response texts, computed once.
ResponseTexts ==
    {TextPlain, TextWithViz, TextVizOnly, TextVizIncomplete, TextRaised, TextFailed}
ParsedResponse == [t \in ResponseTexts |-> parse_viz_spec(t)]

\* The dict _parse_response builds from a message that completed: text, sql,
\* columns, data_rows and suggested_questions (TRUE where non-empty).
CompletedShapes ==
    { [text |-> TextPlain, sql |-> FALSE, columns |-> FALSE, data_rows |-> FALSE,
       suggested_questions |-> TRUE],
      [text |-> TextPlain, sql |-> TRUE, columns |-> TRUE, data_rows |-> TRUE,
       suggested_questions |-> FALSE],
      [text |-> TextWithViz, sql |-> TRUE, columns |-> TRUE, data_rows |-> TRUE,
       suggested_questions |-> FALSE],
      [text |-> TextVizOnly, sql |-> TRUE, columns |-> TRUE, data_rows |-> TRUE,
       suggested_questions |-> FALSE],
      [text |-> TextWithViz, sql |-> TRUE, columns |-> TRUE, data_rows |-> FALSE,
       suggested_questions |-> FALSE],
      [text |-> TextVizIncomplete, sql |-> TRUE, columns |-> TRUE, data_rows |-> TRUE,
       suggested_questions |-> FALSE],
      [text |-> TextVizOnly, sql |-> TRUE, columns |-> FALSE, data_rows |-> TRUE,
       suggested_questions |-> FALSE] }

ResultOf(shape, conversation_id, error) ==
    [text |-> shape.text, sql |-> shape.sql, columns |-> shape.columns,
     data_rows |-> shape.data_rows, suggested_questions |-> shape.suggested_questions,
     conversation_id |-> conversation_id, error |-> error, viz_spec |-> FALSE]

NoData(text) ==
    [text |-> text, sql |-> FALSE, columns |-> FALSE, data_rows |-> FALSE,
     suggested_questions |-> FALSE]

\* GenieClient._parse_response: a FAILED or CANCELLED message gives an error
\* result that carries the message's conversation id.
_parse_response(conversation_id) ==
    {ResultOf(NoData(TextFailed), conversation_id, TRUE)}
    \cup {ResultOf(shape, conversation_id, FALSE) : shape \in CompletedShapes}

\* GenieClient.ask_question: the results a call can return.
ask_question ==
    {ResultOf(NoData(TextRaised), None, TRUE)}
    \cup UNION {_parse_response(c) : c \in ConversationIds}

\* GenieClient.follow_up: the result's conversation id is the one passed in.
follow_up(conversation_id) ==
    {ResultOf(NoData(TextRaised), conversation_id, TRUE)}
    \cup {[r EXCEPT !.conversation_id = conversation_id] :
            r \in UNION {_parse_response(c) : c \in ConversationIds}}

-----------------------------------------------------------------------------
(* GenieBot: the turn handlers *)

HandlerIds == {1, 2}

\* How many turns the adapter starts, and how many results the bot stores.
MaxTurns == 4
MaxStoredResults == 2

\* Messages users send.
Messages ==
    {"/new", " /New ", "start over", "/sql on", "/sql off", "help", "/signout",
     "Which regions sell most?"}

\* message.lower().strip() on the messages above.
LowerStrip(message) == IF message = " /New " THEN "/new" ELSE message

\* The branch of _handle_message a message takes once the user is authenticated.
CommandOf(message) ==
    LET m == LowerStrip(message)
    IN  CASE m \in {"/new", "/reset", "new conversation", "start over"} -> "new"
          [] m = "/sql on" -> "sql_on"
          [] m = "/sql off" -> "sql_off"
          [] m \in {"/help", "help"} -> "help"
          [] m \in {"/signout", "/logout"} -> "signout"
          [] OTHER -> "query"

\* GenieBot._get_user_pref(user_id, "show_sql", True)
_get_user_pref(prefs, user_id) ==
    IF user_id \in DOMAIN prefs THEN prefs[user_id].show_sql ELSE TRUE

\* GenieBot._set_user_pref(user_id, "show_sql", value)
_set_user_pref(prefs, user_id, value) == DictSet(prefs, user_id, [show_sql |-> value])

\* A handler that is not running.
IdleHandler ==
    [pc |-> "idle", user_id |-> None, message |-> None, databricks_token |-> NoToken,
     genie_conversation_id |-> None, replies |-> <<>>]

\* The session tables after a command of an authenticated user, and the reply.
RunCommand(command, user_id, tokens, cache, conversations, prefs) ==
    CASE command = "new" ->
            [user_tokens |-> tokens, tm_user_tokens |-> cache,
             user_conversations |-> DictPop(conversations, user_id),
             user_preferences |-> prefs, reply |-> "new_conversation"]
      [] command = "sql_on" ->
            [user_tokens |-> tokens, tm_user_tokens |-> cache,
             user_conversations |-> conversations,
             user_preferences |-> _set_user_pref(prefs, user_id, TRUE), reply |-> "sql_on"]
      [] command = "sql_off" ->
            [user_tokens |-> tokens, tm_user_tokens |-> cache,
             user_conversations |-> conversations,
             user_preferences |-> _set_user_pref(prefs, user_id, FALSE), reply |-> "sql_off"]
      [] command = "help" ->
            [user_tokens |-> tokens, tm_user_tokens |-> cache,
             user_conversations |-> conversations, user_preferences |-> prefs,
             reply |-> IF _get_user_pref(prefs, user_id) THEN "help_sql_on" ELSE "help_sql_off"]
      [] command = "signout" ->
            [user_tokens |-> DictPop(tokens, user_id),
             tm_user_tokens |-> clear_user_token(cache, user_id),
             user_conversations |-> DictPop(conversations, user_id),
             user_preferences |-> prefs, reply |-> "signed_out"]

\* The failure branch forgetting the token manager's entry.
Mutant_DropTokens_KeepsCache(user_id, tokens, cache) ==
    [user_tokens |-> DictPop(tokens, user_id), tm_user_tokens |-> cache]

\* The failure branch dropping the tokens of every user.
Mutant_DropTokens_AllUsers(user_id, tokens, cache) ==
    [user_tokens |-> EmptyDict, tm_user_tokens |-> EmptyDict]

\* The failure branch of _handle_message after the authentication error has
\* been sent: both of the user's tokens are dropped.
DropTokens(user_id, tokens, cache) ==
    [user_tokens |-> DictPop(tokens, user_id),
     tm_user_tokens |-> clear_user_token(cache, user_id)]

\* The conversation forgotten when the assistant reports an error.
Mutant_RememberConversation_ForgetsOnError(conversations, user_id, result) ==
    IF result.error THEN DictPop(conversations, user_id)
    ELSE IF result.conversation_id /= None
    THEN DictSet(conversations, user_id, result.conversation_id)
    ELSE conversations

\* The conversation of an error result remembered like any other.
Mutant_RememberConversation_AlsoOnError(conversations, user_id, result) ==
    IF result.conversation_id /= None
    THEN DictSet(conversations, user_id, result.conversation_id)
    ELSE conversations

\* "if result.get('conversation_id') and not result.get('error')"
RememberConversation(conversations, user_id, result) ==
    IF result.conversation_id /= None /\ ~result.error
    THEN DictSet(conversations, user_id, result.conversation_id)
    ELSE conversations

\* "if result.get('data_rows') and result.get('columns')"
HasTable(result) == result.data_rows /\ result.columns

\* The text message of a result, if one is sent: the cleaned text, the
\* suggested questions and, when the user wants it, the SQL.
TextReply(result, show_sql) ==
    IF result.text /= <<>> \/ result.suggested_questions
    THEN <<IF show_sql /\ result.sql THEN "text_with_sql" ELSE "text">>
    ELSE <<>>

Init ==
    /\ InitSession
    /\ InitStores
    /\ now = 0
    /\ handlers = [h \in HandlerIds |-> IdleHandler]
    /\ turns = 0
    /\ input = <<>>
    /\ last = [op |-> "init"]

\* _handle_token_exchange: the signin/tokenExchange invoke, with or without a token.
TokenExchangeInvoke(user_id, token) ==
    /\ turns < MaxTurns
    /\ turns' = turns + 1
    /\ IF token /= NoToken
       THEN /\ user_tokens' = DictSet(user_tokens, user_id, token)
            /\ last' = [op |-> "invoke", user_id |-> user_id, status |-> 200]
       ELSE /\ user_tokens' = user_tokens
            /\ last' = [op |-> "invoke", user_id |-> user_id, status |-> 400]
    /\ UNCHANGED <<input, tm_user_tokens, user_conversations, user_preferences,
                   storeVars, issued, handlers, now>>

\* The adapter runs a new turn's handler in a free slot; the slots are
\* interchangeable, so the first free one is taken.
FreeSlot(h) ==
    /\ handlers[h].pc = "idle"
    /\ \A g \in HandlerIds : handlers[g].pc = "idle" => h <= g

\* A turn ends: the handler returns and its replies are the turn's output.
Finished(h, user_id, branch, replies) ==
    /\ handlers' = [handlers EXCEPT ![h] = IdleHandler]
    /\ last' = [op |-> "turn_done", handler |-> h, user_id |-> user_id,
                branch |-> branch, replies |-> replies,
                stored |-> Nothing, chart_image |-> Nothing,
                conversation_before |-> DictGet(user_conversations, user_id, None)]

\* _handle_message up to its first await, for a user without a sign-in token.
MessageUnauthenticated(h, user_id, message) ==
    /\ FreeSlot(h)
    /\ turns < MaxTurns
    /\ turns' = turns + 1
    /\ user_id \notin DOMAIN user_tokens
    /\ Finished(h, user_id, "no_token", <<"signin_card">>)
    /\ UNCHANGED <<input, sessionVars, storeVars, issued, now>>

\* _handle_message up to its first await, for a user with a sign-in token:
\* the exchange, then the failure branch, a command, or the start of a query.
MessageAuthenticated(h, user_id, message, obo) ==
    /\ FreeSlot(h)
    /\ turns < MaxTurns
    /\ turns' = turns + 1
    /\ user_id \in DOMAIN user_tokens
    /\ LET x == exchange_for_databricks_token(tm_user_tokens, user_id,
                                               user_tokens[user_id], now, obo)
           command == CommandOf(message)
       IN  /\ x.now <= MaxNow
           /\ now' = x.now
           /\ IF x.ret = NoToken
              THEN /\ tm_user_tokens' = x.cache
                   /\ handlers' = [handlers EXCEPT ![h] =
                         [IdleHandler EXCEPT !.pc = "auth_failed", !.user_id = user_id,
                                             !.replies = <<"auth_error">>]]
                   /\ last' = [op |-> "exchange_failed", handler |-> h,
                               user_id |-> user_id, external |-> x.external,
                               cache_before |-> tm_user_tokens]
                   /\ UNCHANGED <<user_tokens, user_conversations, user_preferences>>
              ELSE IF command /= "query"
              THEN LET c == RunCommand(command, user_id, user_tokens, x.cache,
                                       user_conversations, user_preferences)
                   IN  /\ user_tokens' = c.user_tokens
                       /\ tm_user_tokens' = c.tm_user_tokens
                       /\ user_conversations' = c.user_conversations
                       /\ user_preferences' = c.user_preferences
                       /\ Finished(h, user_id, command, <<c.reply>>)
              ELSE /\ tm_user_tokens' = x.cache
                   /\ handlers' = [handlers EXCEPT ![h] =
                         [IdleHandler EXCEPT !.pc = "typing", !.user_id = user_id,
                                             !.message = message,
                                             !.databricks_token = x.ret,
                                             !.replies = <<"typing">>]]
                   /\ last' = [op |-> "query_started", handler |-> h,
                               user_id |-> user_id,
                               outcome |-> IF x.external THEN obo.kind ELSE "cached"]
                   /\ UNCHANGED <<user_tokens, user_conversations, user_preferences>>
    /\ UNCHANGED <<input, storeVars, issued>>

\* The failure branch resumes from the send of the authentication error. The
\* send is outside the handler's try: when it raises, the handler is left and
\* the lines after it do not run.
AuthFailureCleanup(h, send_raises) ==
    /\ handlers[h].pc = "auth_failed"
    /\ IF send_raises
       THEN /\ UNCHANGED <<user_tokens, tm_user_tokens>>
            /\ Finished(h, handlers[h].user_id, "auth_send_raised", <<>>)
       ELSE /\ LET d == DropTokens(handlers[h].user_id, user_tokens, tm_user_tokens)
               IN  /\ user_tokens' = d.user_tokens
                   /\ tm_user_tokens' = d.tm_user_tokens
            /\ Finished(h, handlers[h].user_id, "auth_failed",
                        Append(handlers[h].replies, "signin_card"))
    /\ UNCHANGED <<input, user_conversations, user_preferences, storeVars, issued, now, turns>>

\* After the typing indicator: the client is created with the user's token,
\* the active conversation is read and the call is handed to the executor.
GenieCall(h) ==
    /\ handlers[h].pc = "typing"
    /\ handlers' = [handlers EXCEPT ![h].pc = "genie_wait",
                       ![h].genie_conversation_id =
                           DictGet(user_conversations, handlers[h].user_id, None)]
    /\ last' = [op |-> "genie_call", handler |-> h, user_id |-> handlers[h].user_id,
                token |-> handlers[h].databricks_token]
    /\ UNCHANGED <<input, sessionVars, storeVars, issued, now, turns>>

\* The results the pending call of handler h can return.
GenieResults(h) ==
    LET all == IF handlers[h].genie_conversation_id /= None
               THEN follow_up(handlers[h].genie_conversation_id)
               ELSE ask_question
    IN  {r \in all : HasTable(r) => _result_counter < MaxStoredResults}

\* chart_generator.generate as the handler sees it: an image, or None.
ChartOutcomes == {Nothing, Some(SampleChart)}

\* The replies without the table after a chart that could not be made.
Mutant_PlannedReplies_NoFallback(result, viz_spec, result_id, chart_image, show_sql) ==
    LET wanted == viz_spec /= Nothing /\ HasTable(result) /\ result_id /= Nothing
        chart == IF ~wanted THEN <<>>
                 ELSE IF chart_image /= Nothing THEN <<"chart_card">> ELSE <<"chart_note">>
        table == IF ~wanted /\ HasTable(result) /\ result_id /= Nothing
                 THEN <<"table_card">>
                 ELSE IF result.text = <<>> /\ ~result.data_rows
                 THEN <<"no_results">>
                 ELSE <<>>
    IN  TextReply(result, show_sql) \o chart \o table

\* The messages the handler sends after the call returned, in order, when no
\* send raises: the text, then the chart card or the note that no chart could
\* be made, then the table or the notice that nothing was found.
PlannedReplies(result, viz_spec, result_id, chart_image, show_sql) ==
    LET wanted == viz_spec /= Nothing /\ HasTable(result) /\ result_id /= Nothing
        chart_generated == wanted /\ chart_image /= Nothing
        chart == IF ~wanted THEN <<>>
                 ELSE IF chart_generated THEN <<"chart_card">> ELSE <<"chart_note">>
        table == IF ~chart_generated /\ HasTable(result) /\ result_id /= Nothing
                 THEN <<"table_card">>
                 ELSE IF result.text = <<>> /\ ~result.data_rows
                 THEN <<"no_results">>
                 ELSE <<>>
    IN  TextReply(result, show_sql) \o chart \o table

\* The except clause of _handle_message: when the send numbered failing_send
\* raises, the messages before it went out and the error message follows.
RepliesWithFailure(planned, failing_send) ==
    IF failing_send \in 1..Len(planned)
    THEN Append(SubSeq(planned, 1, failing_send - 1), "error_text")
    ELSE planned

\* The call returns and the handler runs to its end: the conversation is
\* remembered, the directive parsed, the result stored if it has a table, and
\* the text, the chart or the table sent. After the store the handler touches
\* no shared state, so its remaining awaits are not separate steps.
GenieReturn(h, returned, chart_image, failing_send) ==
    /\ handlers[h].pc = "genie_wait"
    /\ \E parsed \in {ParsedResponse[returned.text]} :
       LET user_id == handlers[h].user_id
           result == [returned EXCEPT !.text = parsed.clean_text,
                                      !.viz_spec = parsed.viz_spec /= Nothing
                                                   /\ HasTable(returned)]
           put == _store_result(query_results, _result_counter, result)
           result_id == IF HasTable(result) THEN Some(put.id) ELSE Nothing
           planned == PlannedReplies(result, parsed.viz_spec, result_id, chart_image,
                                     _get_user_pref(user_preferences, user_id))
           replies == handlers[h].replies \o RepliesWithFailure(planned, failing_send)
       IN  /\ (chart_image /= Nothing) => (parsed.viz_spec /= Nothing /\ HasTable(result))
           /\ failing_send <= Len(planned)
           /\ user_conversations' = RememberConversation(user_conversations, user_id, returned)
           /\ IF HasTable(result)
              THEN /\ query_results' = put.store
                   /\ _result_counter' = put.counter
                   /\ issued' = [issued EXCEPT !.result = Append(@, put.id[2])]
              ELSE UNCHANGED <<query_results, _result_counter, issued>>
           /\ handlers' = [handlers EXCEPT ![h] = IdleHandler]
           /\ last' = [op |-> "turn_done", handler |-> h, user_id |-> user_id,
                       branch |-> IF failing_send > 0 THEN "exception"
                                  ELSE IF returned.error THEN "genie_error"
                                  ELSE "query",
                       replies |-> replies,
                       stored |-> result_id,
                       chart_image |-> chart_image,
                       conversation_before |-> DictGet(user_conversations, user_id, None)]
    /\ UNCHANGED <<input, user_tokens, tm_user_tokens, user_preferences,
                   chart_images, _chart_counter, now, turns>>

\* In Spec all turns fall within one second of the clock: a token issued for
\* 60 seconds is stale as soon as it is cached, one issued for 61 stays valid.
\* SpecToken lets the clock advance.
BotLifetimes == {Some(60), Some(61)}

Next ==
    \/ \E u \in Users : \E t \in {TeamsToken(u), NoToken} : TokenExchangeInvoke(u, t)
    \/ \E h \in HandlerIds, u \in Users, m \in Messages : MessageUnauthenticated(h, u, m)
    \/ \E h \in HandlerIds, u \in Users, m \in Messages :
         \E obo \in OboOutcomes(TeamsToken(u), {1}, BotLifetimes, {0}) :
            MessageAuthenticated(h, u, m, obo)
    \/ \E h \in HandlerIds, send_raises \in BOOLEAN : AuthFailureCleanup(h, send_raises)
    \/ \E h \in HandlerIds : GenieCall(h)
    \/ \E h \in HandlerIds : \E r \in GenieResults(h) :
         \E img \in ChartOutcomes, failing_send \in 0..3 : GenieReturn(h, r, img, failing_send)

Spec == Init /\ [][Next]_vars

SpecToken == Init /\ [][NextToken]_vars

-----------------------------------------------------------------------------
(* SpecLoop: the bot with the event loop's thread made explicit *)

\* Where the work of a handler at a position runs: the two Genie calls are
\* handed to the default executor with loop.run_in_executor, while
\* chart_generator.generate is called directly by the coroutine, that is on
\* the thread of the event loop.
RunsOn(pc) ==
    CASE pc = "genie_wait" -> "executor"
      [] pc = "rendering" -> "event_loop"
      [] OTHER -> "suspended"

\* The event loop resumes a coroutine only when its thread is not running one.
LoopFree == \A h \in HandlerIds : RunsOn(handlers[h].pc) /= "event_loop"

\* The handler reaches chart_generator.generate for this result.
Renders(returned) ==
    ParsedResponse[returned.text].viz_spec /= Nothing /\ HasTable(returned)

\* The call returns a result with a directive and a table: the conversation is
\* remembered, the result stored and the text sent; then the coroutine enters
\* chart_generator.generate without giving up the thread.
RenderBegin(h, returned) ==
    /\ handlers[h].pc = "genie_wait"
    /\ Renders(returned)
    /\ \E parsed \in {ParsedResponse[returned.text]} :
       LET user_id == handlers[h].user_id
           result == [returned EXCEPT !.text = parsed.clean_text, !.viz_spec = TRUE]
           put == _store_result(query_results, _result_counter, result)
           text_reply == TextReply(result, _get_user_pref(user_preferences, user_id))
       IN  /\ user_conversations' = RememberConversation(user_conversations, user_id, returned)
           /\ query_results' = put.store
           /\ _result_counter' = put.counter
           /\ issued' = [issued EXCEPT !.result = Append(@, put.id[2])]
           /\ handlers' = [handlers EXCEPT ![h] =
                 [pc |-> "rendering", user_id |-> user_id,
                  message |-> handlers[h].message,
                  databricks_token |-> handlers[h].databricks_token,
                  genie_conversation_id |-> handlers[h].genie_conversation_id,
                  replies |-> handlers[h].replies \o text_reply,
                  result |-> result, viz_spec |-> parsed.viz_spec,
                  result_id |-> Some(put.id),
                  conversation_before |-> DictGet(user_conversations, user_id, None)]]
           /\ last' = [op |-> "render_begin", handler |-> h, user_id |-> user_id]
    /\ UNCHANGED <<input, user_tokens, tm_user_tokens, user_preferences,
                   chart_images, _chart_counter, now, turns>>

\* generate returns an image or None; the chart card, or the note and the
\* table card, are sent and the handler ends.
RenderEnd(h, chart_image, failing_send) ==
    /\ handlers[h].pc = "rendering"
    /\ LET planned == PlannedReplies([handlers[h].result EXCEPT !.text = <<>>,
                                                               !.suggested_questions = FALSE],
                                     handlers[h].viz_spec, handlers[h].result_id,
                                     chart_image, FALSE)
       IN  /\ failing_send <= Len(planned)
           /\ handlers' = [handlers EXCEPT ![h] = IdleHandler]
           /\ last' = [op |-> "turn_done", handler |-> h, user_id |-> handlers[h].user_id,
                       branch |-> IF failing_send > 0 THEN "exception" ELSE "query",
                       replies |-> handlers[h].replies
                                   \o RepliesWithFailure(planned, failing_send),
                       stored |-> handlers[h].result_id,
                       chart_image |-> chart_image,
                       conversation_before |-> handlers[h].conversation_before]
    /\ UNCHANGED <<input, sessionVars, storeVars, issued, now, turns>>

\* The steps of Spec that the event loop takes for a handler, or for an invoke.
LoopTokenExchangeInvoke(u, t) == LoopFree /\ TokenExchangeInvoke(u, t)
LoopMessageUnauthenticated(h, u, m) == LoopFree /\ MessageUnauthenticated(h, u, m)
LoopMessageAuthenticated(h, u, m, obo) == LoopFree /\ MessageAuthenticated(h, u, m, obo)
LoopAuthFailureCleanup(h, send_raises) == LoopFree /\ AuthFailureCleanup(h, send_raises)
LoopGenieCall(h) == LoopFree /\ GenieCall(h)

\* The handler runs to its end without a render: the result has no directive
\* or no table, or the send of the text raised.
LoopGenieReturn(h, returned, failing_send) ==
    /\ LoopFree
    /\ \/ ~Renders(returned)
       \/ /\ failing_send = 1
          /\ TextReply([returned EXCEPT !.text = ParsedResponse[returned.text].clean_text],
                       _get_user_pref(user_preferences, handlers[h].user_id)) /= <<>>
    /\ GenieReturn(h, returned, Nothing, failing_send)

LoopRenderBegin(h, returned) == LoopFree /\ RenderBegin(h, returned)

NextLoop ==
    \/ \E u \in Users : \E t \in {TeamsToken(u), NoToken} : LoopTokenExchangeInvoke(u, t)
    \/ \E h \in HandlerIds, u \in Users, m \in Messages : LoopMessageUnauthenticated(h, u, m)
    \/ \E h \in HandlerIds, u \in Users, m \in Messages :
         \E obo \in OboOutcomes(TeamsToken(u), {1}, BotLifetimes, {0}) :
            LoopMessageAuthenticated(h, u, m, obo)
    \/ \E h \in HandlerIds, send_raises \in BOOLEAN : LoopAuthFailureCleanup(h, send_raises)
    \/ \E h \in HandlerIds : LoopGenieCall(h)
    \/ \E h \in HandlerIds : \E r \in GenieResults(h) :
         \E failing_send \in 0..3 : LoopGenieReturn(h, r, failing_send)
    \/ \E h \in HandlerIds : \E r \in GenieResults(h) : LoopRenderBegin(h, r)
    \/ \E h \in HandlerIds : \E img \in ChartOutcomes, failing_send \in 0..2 :
         RenderEnd(h, img, failing_send)

SpecLoop == Init /\ [][NextLoop]_vars

-----------------------------------------------------------------------------
(* SpecLeak: what the user is sent when the Genie call fails *)

\* str(e) of the exception the SDK call raises, or the error of a FAILED message.
ExceptionMessages ==
    { <<"403">>, <<"timeout">>, <<"host", SP, "adb-1234">>, <<"token", SP, "dapi99">> }

\* f"Sorry, I encountered an error: {str(e)}"
SorryText(e) ==
    <<"Sorry", ",", SP, "I", SP, "encountered", SP, "an", SP, "error", ":", SP>> \o e

\* The except clauses of ask_question and of follow_up.
AskQuestionExcept(e) == ResultOf(NoData(SorryText(e)), None, TRUE)
FollowUpExcept(conversation_id, e) == ResultOf(NoData(SorryText(e)), conversation_id, TRUE)

\* _parse_response on a FAILED or CANCELLED message with an error.
ParseResponseFailed(conversation_id, error_msg) ==
    ResultOf(NoData(<<"Query", SP, "failed", ":", SP>> \o error_msg), conversation_id, TRUE)

\* The text message _handle_message sends for a result: the text without its
\* directive (an error result has no SQL and no suggested questions), sent
\* when it is not blank.
SentText(result) ==
    LET clean_text == parse_viz_spec(result.text).clean_text
    IN  IF strip(clean_text) /= <<>> THEN Some(clean_text) ELSE Nothing

\* The except clause of _handle_message.
HandlerExcept(e) == Some(<<"**Error**", NL, NL>> \o SorryText(e))

FailureKinds == {"ask_question", "follow_up", "message_failed", "handler"}

\* What the user reads after a failure of a kind with the internal message e.
UserVisibleText(kind, conversation_id, e) ==
    CASE kind = "ask_question" -> SentText(AskQuestionExcept(e))
      [] kind = "follow_up" -> SentText(FollowUpExcept(conversation_id, e))
      [] kind = "message_failed" -> SentText(ParseResponseFailed(conversation_id, e))
      [] kind = "handler" -> HandlerExcept(e)

\* Two failures of one kind that differ in the internal message only.
InitLeak ==
    /\ InitSession
    /\ InitStores
    /\ now = 0
    /\ handlers = [h \in HandlerIds |-> IdleHandler]
    /\ turns = 0
    /\ input \in [kind : FailureKinds, conversation_id : ConversationIds,
                  first : ExceptionMessages, second : ExceptionMessages]
    /\ last = [op |-> "input"]

Fail ==
    /\ last.op = "input"
    /\ last' = [op |-> "failed",
                first |-> UserVisibleText(input.kind, input.conversation_id, input.first),
                second |-> UserVisibleText(input.kind, input.conversation_id, input.second)]
    /\ UNCHANGED <<input, sessionVars, storeVars, issued, now, handlers, turns>>

NextLeak == Fail

SpecLeak == InitLeak /\ [][NextLeak]_vars

-----------------------------------------------------------------------------
(* SpecStore: the two stores driven through their operations *)

\* The ids a lookup is tried on: the oldest ever issued, the two around the
\* eviction cut, the newest, and one not issued yet.
ProbeNumbers(counter, capacity) ==
    {n \in {1, counter - capacity, counter - capacity + 1, counter, counter + 1} : n >= 1}

PutResult ==
    /\ _result_counter < ResultCapacity + StorePutsOver
    /\ LET r == _store_result(query_results, _result_counter, SampleResult)
       IN  /\ query_results' = r.store
           /\ _result_counter' = r.counter
           /\ issued' = [issued EXCEPT !.result = Append(@, r.id[2])]
           /\ last' = [op |-> "put_result", id |-> r.id]
    /\ UNCHANGED <<input, chart_images, _chart_counter, sessionVars, now, handlers, turns>>

PutChart ==
    /\ _chart_counter < ChartCapacity + StorePutsOver
    /\ LET r == store_chart(chart_images, _chart_counter, SampleChart)
       IN  /\ chart_images' = r.store
           /\ _chart_counter' = r.counter
           /\ issued' = [issued EXCEPT !.chart = Append(@, r.id[2])]
           /\ last' = [op |-> "put_chart", id |-> r.id]
    /\ UNCHANGED <<input, query_results, _result_counter, sessionVars, now, handlers, turns>>

GetResult ==
    /\ \E n \in ProbeNumbers(_result_counter, ResultCapacity) :
         last' = [op |-> "get_result", id |-> ResultId(n),
                  ret |-> get_result(query_results, ResultId(n))]
    /\ UNCHANGED <<input, storeVars, issued, sessionVars, now, handlers, turns>>

GetChart ==
    /\ \E n \in ProbeNumbers(_chart_counter, ChartCapacity) :
         last' = [op |-> "get_chart", id |-> ChartId(n),
                  ret |-> get_chart(chart_images, ChartId(n))]
    /\ UNCHANGED <<input, storeVars, issued, sessionVars, now, handlers, turns>>

NextStore == PutResult \/ PutChart \/ GetResult \/ GetChart

SpecStore == Init /\ [][NextStore]_vars

-----------------------------------------------------------------------------
(* SpecParse: parse_viz_spec applied to a text *)

\* How many "key: value" items a directive block holds at most.
MaxItems == 4

\* The items a block is made of: fields in either case, a value of two words,
\* a blank before the colon, a key that is no field, a field without a value.
ParseItems ==
    { <<"chart_type", ":", SP, "bar">>,
      <<"Chart_Type", ":", SP, "pie">>,
      <<"x_axis", ":", SP, "Region">>,
      <<"y_axis", ":", SP, "Sales">>,
      <<"title", SP, ":", SP, "Top", SP, "Sales">>,
      <<"Color", ":", SP, "red">>,
      <<"sort", ":">> }

ItemLists == UNION {[1..n -> ParseItems] : n \in 0..MaxItems}

\* The items, each followed by sep; sep is a blank (the run-on line) or a line break.
RECURSIVE JoinItems(_, _)
JoinItems(items, sep) ==
    IF items = <<>> THEN <<>>
    ELSE Head(items) \o <<sep>> \o JoinItems(Tail(items), sep)

SecondBlock ==
    <<"[viz_start]", SP, "chart_type", ":", SP, "line", SP, "x_axis", ":", SP, "a", SP,
      "y_axis", ":", SP, "b", SP, "[Viz_End]">>

\* A text around a block: the block alone, the block inside an answer, the
\* block followed by a second block, no markers at all, no end marker.
Envelopes == {"alone", "inside", "two_blocks", "no_markers", "no_end"}

TextOf(envelope, items, sep) ==
    LET body == <<sep>> \o JoinItems(items, sep)
    IN  CASE envelope = "alone" -> <<VizStart>> \o body \o <<VizEnd>>
          [] envelope = "inside" ->
                <<"answer", SP, VizStart>> \o body \o <<VizEnd, SP, "more">>
          [] envelope = "two_blocks" ->
                <<"answer", SP, VizStart>> \o body \o <<VizEnd, SP, "and", SP>>
                \o SecondBlock \o <<SP, "more">>
          [] envelope = "no_markers" -> <<"answer">> \o body
          [] envelope = "no_end" -> <<"answer", SP, VizStart>> \o body

ParseInputs ==
    {TextOf(e, items, sep) : e \in Envelopes, items \in ItemLists, sep \in {SP, NL}}
    \cup {<<>>}

InitParse ==
    /\ InitSession
    /\ InitStores
    /\ now = 0
    /\ handlers = [h \in HandlerIds |-> IdleHandler]
    /\ turns = 0
    /\ input \in ParseInputs
    /\ last = [op |-> "input"]

\* parse_viz_spec(input)
Parse ==
    /\ last.op = "input"
    /\ last' = [op |-> "parse", ret |-> parse_viz_spec(input)]
    /\ UNCHANGED <<input, sessionVars, storeVars, issued, now, handlers, turns>>

NextParse == Parse

SpecParse == InitParse /\ [][NextParse]_vars

-----------------------------------------------------------------------------
(* ChartGenerator: from a spec, the columns and the rows to what is drawn *)

\* A cell of a row: None, a number, or a string given by its characters.
NoneCell == [kind |-> "none", num |-> 0, str |-> <<>>]
NumCell(n) == [kind |-> "num", num |-> n, str |-> <<>>]
StrCell(chars) == [kind |-> "str", num |-> 0, str |-> chars]

Digits == <<"0", "1", "2", "3", "4", "5", "6", "7", "8", "9">>
IsDigit(c) == \E d \in 1..10 : Digits[d] = c
DigitValue(c) == (CHOOSE d \in 1..10 : Digits[d] = c) - 1

\* float() of a string of digits.
RECURSIVE DigitsToNumber(_)
DigitsToNumber(chars) ==
    IF chars = <<>> THEN 0
    ELSE 10 * DigitsToNumber(SubSeq(chars, 1, Len(chars) - 1))
         + DigitValue(chars[Len(chars)])

\* ChartGenerator._to_numeric: None is 0, a number is itself, a string is the
\* number left when the currency, percent and thousands marks are removed,
\* and 0 when that is no number.
_to_numeric(value) ==
    CASE value.kind = "none" -> 0
      [] value.kind = "num" -> value.num
      [] OTHER ->
            LET cleaned == SelectSeq(value.str, LAMBDA c : c \notin {"$", ",", "%"})
            IN  IF cleaned /= <<>> /\ \A i \in 1..Len(cleaned) : IsDigit(cleaned[i])
                THEN DigitsToNumber(cleaned)
                ELSE 0

\* A column that is not found replaced by the first column.
Mutant_get_column_index_Guess(columns, col_name) ==
    LET found == {i \in 1..Len(columns) : LowerAll(columns[i]) = LowerAll(col_name)}
    IN  IF found = {} THEN Some(1)
        ELSE Some(CHOOSE i \in found : \A j \in found : i <= j)

\* ChartGenerator._get_column_index: the first column whose lower-cased name
\* is the lower-cased col_name (positions count from 1), or None.
_get_column_index(columns, col_name) ==
    LET found == {i \in 1..Len(columns) : LowerAll(columns[i]) = LowerAll(col_name)}
    IN  IF found = {} THEN Nothing
        ELSE Some(CHOOSE i \in found : \A j \in found : i <= j)

\* A descending sort that is the ascending one reversed: equal values end up
\* in the reverse of their input order.
RECURSIVE Mutant_SortPairs_ReversedTies(_, _)
Mutant_SortPairs_ReversedTies(pairs, desc) ==
    IF pairs = <<>> THEN <<>>
    ELSE LET sorted == Mutant_SortPairs_ReversedTies(SubSeq(pairs, 1, Len(pairs) - 1), desc)
             pair == pairs[Len(pairs)]
             before == {i \in 1..Len(sorted) :
                          IF desc THEN sorted[i][2] > pair[2] ELSE sorted[i][2] <= pair[2]}
             n == IF before = {} THEN 0 ELSE CHOOSE i \in before : \A j \in before : i >= j
         IN  SubSeq(sorted, 1, n) \o <<pair>> \o SubSeq(sorted, n + 1, Len(sorted))

\* list.sort(key=lambda x: x[1], reverse=desc) on (x, y) pairs: stable in
\* both directions.
RECURSIVE SortPairs(_, _)
SortPairs(pairs, desc) ==
    IF pairs = <<>> THEN <<>>
    ELSE LET sorted == SortPairs(SubSeq(pairs, 1, Len(pairs) - 1), desc)
             pair == pairs[Len(pairs)]
             before == {i \in 1..Len(sorted) :
                          IF desc THEN sorted[i][2] >= pair[2] ELSE sorted[i][2] <= pair[2]}
             n == IF before = {} THEN 0 ELSE CHOOSE i \in before : \A j \in before : i >= j
         IN  SubSeq(sorted, 1, n) \o <<pair>> \o SubSeq(sorted, n + 1, Len(sorted))

RECURSIVE SumSecond(_)
SumSecond(pairs) == IF pairs = <<>> THEN 0 ELSE pairs[1][2] + SumSecond(Tail(pairs))

Zip(x_data, y_data) == [i \in 1..Len(x_data) |-> <<x_data[i], y_data[i]>>]
Firsts(pairs) == [i \in 1..Len(pairs) |-> pairs[i][1]]
Seconds(pairs) == [i \in 1..Len(pairs) |-> pairs[i][2]]

max_bars == 15
max_slices == 8

\* _create_bar_chart: the bars drawn.
_create_bar_chart(x_data, y_data) ==
    IF Len(x_data) > max_bars
    THEN [kind |-> "bar", x_data |-> SubSeq(x_data, 1, max_bars),
          y_data |-> SubSeq(y_data, 1, max_bars)]
    ELSE [kind |-> "bar", x_data |-> x_data, y_data |-> y_data]

\* The pie with seven slots: the top six and Other.
Mutant_create_pie_chart_SevenSlots(x_data, y_data) ==
    IF Len(x_data) > 7
    THEN LET paired == SortPairs(Zip(x_data, y_data), TRUE)
             top_items == SubSeq(paired, 1, 6)
             other_sum == SumSecond(SubSeq(paired, 7, Len(paired)))
         IN  [kind |-> "pie",
              x_data |-> Firsts(top_items) \o <<StrCell(<<"Other">>)>>,
              y_data |-> Seconds(top_items) \o <<other_sum>>]
    ELSE [kind |-> "pie", x_data |-> x_data, y_data |-> y_data]

\* The pie that keeps the first seven categories as given, without sorting.
Mutant_create_pie_chart_Unsorted(x_data, y_data) ==
    IF Len(x_data) > max_slices
    THEN LET paired == Zip(x_data, y_data)
             top_items == SubSeq(paired, 1, max_slices - 1)
             other_sum == SumSecond(SubSeq(paired, max_slices, Len(paired)))
         IN  [kind |-> "pie",
              x_data |-> Firsts(top_items) \o <<StrCell(<<"Other">>)>>,
              y_data |-> Seconds(top_items) \o <<other_sum>>]
    ELSE [kind |-> "pie", x_data |-> x_data, y_data |-> y_data]

\* _create_pie_chart: the slices drawn.
_create_pie_chart(x_data, y_data) ==
    IF Len(x_data) > max_slices
    THEN LET paired == SortPairs(Zip(x_data, y_data), TRUE)
             top_items == SubSeq(paired, 1, max_slices - 1)
             other_sum == SumSecond(SubSeq(paired, max_slices, Len(paired)))
         IN  [kind |-> "pie",
              x_data |-> Firsts(top_items) \o <<StrCell(<<"Other">>)>>,
              y_data |-> Seconds(top_items) \o <<other_sum>>]
    ELSE [kind |-> "pie", x_data |-> x_data, y_data |-> y_data]

\* The line, scatter and area charts draw every point.
_create_other_chart(kind, x_data, y_data) ==
    [kind |-> kind, x_data |-> x_data, y_data |-> y_data]

\* ChartGenerator.generate: what is drawn and from which columns, or Nothing
\* for None. renderer_raises: matplotlib raises while the chart is drawn. A
\* row too short for a column raises IndexError; every exception is caught.
generate(viz_spec, columns, data_rows, renderer_raises) ==
    LET chart_type == LowerAll(DictGet(viz_spec, KeyOf("chart_type"), <<"bar">>))
        x_col == DictGet(viz_spec, KeyOf("x_axis"), <<>>)
        y_given == DictGet(viz_spec, KeyOf("y_axis"), <<>>)
        y_col == IF \E i \in 1..Len(y_given) : y_given[i] = ","
                 THEN strip(Split(y_given, ",")[1])
                 ELSE y_given
        sort_order == LowerAll(DictGet(viz_spec, KeyOf("sort"), <<"none">>))
        x_found == _get_column_index(columns, x_col)
        y_found == _get_column_index(columns, y_col)
        x_idx == CHOOSE i \in x_found : TRUE
        y_idx == CHOOSE i \in y_found : TRUE
        kept == SelectSeq(data_rows, LAMBDA row : row[x_idx] /= NoneCell)
        index_error == \/ \E r \in 1..Len(data_rows) : Len(data_rows[r]) < x_idx
                       \/ \E r \in 1..Len(kept) : Len(kept[r]) < y_idx
        x_all == [r \in 1..Len(kept) |-> kept[r][x_idx]]
        y_all == [r \in 1..Len(kept) |-> _to_numeric(kept[r][y_idx])]
        paired == IF sort_order \in {<<"asc">>, <<"desc">>}
                  THEN SortPairs(Zip(x_all, y_all), sort_order = <<"desc">>)
                  ELSE Zip(x_all, y_all)
        x_data == Firsts(paired)
        y_data == Seconds(paired)
        drawn == CASE chart_type = <<"pie">> -> _create_pie_chart(x_data, y_data)
                   [] chart_type \in {<<"line">>, <<"scatter">>, <<"area">>} ->
                         _create_other_chart(chart_type[1], x_data, y_data)
                   [] OTHER -> _create_bar_chart(x_data, y_data)
    IN  IF x_found = Nothing \/ y_found = Nothing THEN Nothing
        ELSE IF index_error THEN Nothing
        ELSE IF x_all = <<>> THEN Nothing
        ELSE IF renderer_raises THEN Nothing
        ELSE Some([chart |-> drawn, x_idx |-> x_idx, y_idx |-> y_idx])

-----------------------------------------------------------------------------
(* SpecChart: generate applied to a spec, columns and rows *)

\* How many rows the long table has beyond the bar chart's cap.
RowsOverBars == 1

ChartTypes == {<<"bar">>, <<"PIE">>, <<"pie">>, <<"line">>, <<"donut">>}
XAxes == {<<"Region">>, <<"REGION">>, <<"Nonexistent">>, <<"Reg">>}
YAxes == {<<"Sales">>, <<"sales", ",", SP, "Profit">>, <<"Nonexistent", ",", "Sales">>,
          <<"Profit">>}
Sorts == {Nothing, Some(<<"asc">>), Some(<<"DESC">>), Some(<<"largest">>)}

VizSpecs ==
    {[k \in {KeyOf("chart_type"), KeyOf("x_axis"), KeyOf("y_axis")}
            \cup {KeyOf("sort") : x \in so} |->
        CASE k = KeyOf("chart_type") -> ct
          [] k = KeyOf("x_axis") -> xa
          [] k = KeyOf("y_axis") -> ya
          [] OTHER -> CHOOSE v \in so : TRUE] :
     ct \in ChartTypes, xa \in XAxes, ya \in YAxes, so \in Sorts}

ColumnLists ==
    {<<<<"Region">>, <<"Sales">>, <<"Profit">>>>,
     <<<<"region">>, <<"sales">>, <<"Region">>>>,
     <<<<"Sales">>, <<"Other">>, <<"Top">>>>}

TenValues == <<50, 40, 30, 20, 10, 8, 6, 4, 2, 1>>
TenNames == <<"a", "b", "c", "d", "e", "f", "g", "h", "i", "j">>

\* Ten categories in the order given; the same, smallest first; the first
\* eight; the first nine; more rows than a bar chart shows; rows with a null x, a formatted
\* number and a string that is no number; only null x; a short row; no rows.
DataSets ==
    {[r \in 1..10 |-> <<StrCell(<<TenNames[r]>>), NumCell(TenValues[r]), NumCell(r)>>],
     [r \in 1..10 |-> <<StrCell(<<TenNames[11 - r]>>), NumCell(TenValues[11 - r]), NumCell(r)>>],
     [r \in 1..8 |-> <<StrCell(<<TenNames[r]>>), NumCell(TenValues[r]), NumCell(r)>>],
     [r \in 1..(max_slices + 1) |->
         <<StrCell(<<TenNames[r]>>), NumCell(TenValues[r]), NumCell(r)>>],
     [r \in 1..(max_bars + RowsOverBars) |-> <<NumCell(r), NumCell(r % 3), NumCell(1)>>],
     <<<<NoneCell, NumCell(5), NumCell(1)>>,
       <<StrCell(<<"a">>), StrCell(<<"$", "1", ",", "2", "0", "0">>), NoneCell>>,
       <<StrCell(<<"b">>), StrCell(<<"n", "a">>), NumCell(2)>>>>,
     <<<<NoneCell, NumCell(5), NumCell(1)>>, <<NoneCell, NumCell(6), NumCell(2)>>>>,
     <<<<StrCell(<<"a">>), NumCell(5), NumCell(1)>>, <<StrCell(<<"b">>)>>>>,
     <<>>}

InitChart ==
    /\ InitSession
    /\ InitStores
    /\ now = 0
    /\ handlers = [h \in HandlerIds |-> IdleHandler]
    /\ turns = 0
    /\ input \in [viz_spec : VizSpecs, columns : ColumnLists, data_rows : DataSets,
                  renderer_raises : BOOLEAN]
    /\ last = [op |-> "input"]

\* chart_generator.generate(viz_spec, columns, data_rows)
Generate ==
    /\ last.op = "input"
    /\ last' = [op |-> "generate",
                ret |-> generate(input.viz_spec, input.columns, input.data_rows,
                                 input.renderer_raises)]
    /\ UNCHANGED <<input, sessionVars, storeVars, issued, now, handlers, turns>>

NextChart == Generate

SpecChart == InitChart /\ [][NextChart]_vars

-----------------------------------------------------------------------------
(* The result views: the paginated card, view data, the interactive chart *)

PAGE_SIZE == 20
\* "str(val)[:50] + ('...' if len(str(val)) > 50 else '')"
DisplayLimit == 50

\* str() of a number that is not negative, as characters.
RECURSIVE NumberToDigits(_)
NumberToDigits(n) ==
    IF n < 10 THEN <<Digits[n + 1]>>
    ELSE NumberToDigits(n \div 10) \o <<Digits[(n % 10) + 1]>>

\* str(val) of a cell that is not None.
Str(cell) == IF cell.kind = "num" THEN NumberToDigits(cell.num) ELSE cell.str

\* display_val of a cell.
DisplayValue(cell) ==
    IF cell = NoneCell THEN <<"-">>
    ELSE IF Len(Str(cell)) > DisplayLimit
    THEN SubSeq(Str(cell), 1, DisplayLimit) \o <<".", ".", ".">>
    ELSE Str(cell)

PyMax(a, b) == IF a >= b THEN a ELSE b
PyMin(a, b) == IF a <= b THEN a ELSE b

\* The card with the page count rounded down.
Mutant_create_paginated_card_Floor(result, page, page_size) ==
    LET total_rows == Len(result.data_rows)
        total_pages == PyMax(1, total_rows \div page_size)
        shown == PyMax(0, PyMin(page, total_pages - 1))
        start_idx == shown * page_size
        end_idx == PyMin(start_idx + page_size, total_rows)
        page_rows == SubSeq(result.data_rows, start_idx + 1, end_idx)
    IN  [card |-> [page |-> shown, total_pages |-> total_pages, total_rows |-> total_rows,
                   page_rows |-> page_rows,
                   table |-> [r \in 1..Len(page_rows) |->
                                 [c \in 1..Len(page_rows[r]) |-> DisplayValue(page_rows[r][c])]],
                   previous |-> shown > 0, next |-> shown < total_pages - 1],
         result |-> result]

\* The card writing the shortened cells back into the rows it was given.
Mutant_create_paginated_card_InPlace(result, page, page_size) ==
    LET total_rows == Len(result.data_rows)
        total_pages == PyMax(1, (total_rows + page_size - 1) \div page_size)
        shown == PyMax(0, PyMin(page, total_pages - 1))
        start_idx == shown * page_size
        end_idx == PyMin(start_idx + page_size, total_rows)
        page_rows == SubSeq(result.data_rows, start_idx + 1, end_idx)
    IN  [card |-> [page |-> shown, total_pages |-> total_pages, total_rows |-> total_rows,
                   page_rows |-> page_rows,
                   table |-> [r \in 1..Len(page_rows) |->
                                 [c \in 1..Len(page_rows[r]) |-> DisplayValue(page_rows[r][c])]],
                   previous |-> shown > 0, next |-> shown < total_pages - 1],
         result |-> [result EXCEPT !.data_rows =
                        [r \in 1..total_rows |->
                            IF r \in (start_idx + 1)..end_idx
                            THEN [c \in 1..Len(result.data_rows[r]) |->
                                     StrCell(DisplayValue(result.data_rows[r][c]))]
                            ELSE result.data_rows[r]]]]

\* The card whose page runs one row into the next page.
Mutant_create_paginated_card_Overlap(result, page, page_size) ==
    LET total_rows == Len(result.data_rows)
        total_pages == PyMax(1, (total_rows + page_size - 1) \div page_size)
        shown == PyMax(0, PyMin(page, total_pages - 1))
        start_idx == shown * page_size
        end_idx == PyMin(start_idx + page_size + 1, total_rows)
        page_rows == SubSeq(result.data_rows, start_idx + 1, end_idx)
    IN  [card |-> [page |-> shown, total_pages |-> total_pages, total_rows |-> total_rows,
                   page_rows |-> page_rows,
                   table |-> [r \in 1..Len(page_rows) |->
                                 [c \in 1..Len(page_rows[r]) |-> DisplayValue(page_rows[r][c])]],
                   previous |-> shown > 0, next |-> shown < total_pages - 1],
         result |-> result]

\* create_paginated_card: the card (the page shown, counting from 0, the page
\* count, the slice of rows, the table of display values, which is empty
\* without columns, and the two buttons) and the result dict as the call
\* leaves it: the function only reads it.
create_paginated_card(result, page, page_size) ==
    LET total_rows == Len(result.data_rows)
        total_pages == PyMax(1, (total_rows + page_size - 1) \div page_size)
        shown == PyMax(0, PyMin(page, total_pages - 1))
        start_idx == shown * page_size
        end_idx == PyMin(start_idx + page_size, total_rows)
        page_rows == SubSeq(result.data_rows, start_idx + 1, end_idx)
    IN  [card |-> [page |-> shown, total_pages |-> total_pages, total_rows |-> total_rows,
                   page_rows |-> page_rows,
                   table |-> IF result.columns /= <<>>
                             THEN [r \in 1..Len(page_rows) |->
                                     [c \in 1..Len(page_rows[r]) |->
                                         DisplayValue(page_rows[r][c])]]
                             ELSE <<>>,
                   previous |-> shown > 0, next |-> shown < total_pages - 1],
         result |-> result]

\* A lookup that falls back to the newest result.
Mutant_FindResult_Newest(store, result_id) ==
    IF result_id = Nothing \/ store = <<>> THEN Nothing
    ELSE IF OrderedGet(store, CHOOSE id \in result_id : TRUE) /= Nothing
    THEN OrderedGet(store, CHOOSE id \in result_id : TRUE)
    ELSE Some(store[Len(store)].value)

\* "result_id and result_id in self.query_results", then
\* self.query_results[result_id]: result_id is Nothing when the request
\* carries none.
FindResult(store, result_id) ==
    IF result_id = Nothing THEN Nothing
    ELSE OrderedGet(store, CHOOSE id \in result_id : TRUE)

\* The store with the dict under a key as a call left it: the store holds
\* the object the call was given.
WriteBack(store, result_id, result) ==
    [i \in 1..Len(store) |->
        IF Some(store[i].key) = result_id
        THEN [key |-> store[i].key, value |-> result]
        ELSE store[i]]

\* _handle_pagination and _handle_view_data (page 0): the reply and the store.
_handle_pagination(store, result_id, page) ==
    LET found == FindResult(store, result_id)
    IN  IF found = Nothing
        THEN [reply |-> [kind |-> "text",
                         text |-> "Sorry, I couldn't find the data. Please run the query again."],
              store |-> store]
        ELSE LET c == create_paginated_card(CHOOSE r \in found : TRUE, page, PAGE_SIZE)
             IN  [reply |-> [kind |-> "card", card |-> c.card],
                  store |-> WriteBack(store, result_id, c.result)]

\* _handle_task_fetch: the invoke response.
_handle_task_fetch(store, result_id) ==
    IF FindResult(store, result_id) = Nothing
    THEN [kind |-> "task_message",
          text |-> "Chart data has expired. Please run the query again."]
    ELSE [kind |-> "task_continue", text |-> "Interactive Chart"]

\* interactive_chart: the HTTP response; a column the spec names and the
\* result lacks is replaced by the first or the second column.
interactive_chart(store, result_id) ==
    LET found == FindResult(store, result_id)
        result == CHOOSE r \in found : TRUE
        viz_spec == IF result.viz_spec = Nothing THEN EmptyDict
                    ELSE CHOOSE v \in result.viz_spec : TRUE
        x_col == DictGet(viz_spec, KeyOf("x_axis"), result.columns[1])
        y_given == DictGet(viz_spec, KeyOf("y_axis"),
                           IF Len(result.columns) > 1 THEN result.columns[2]
                           ELSE result.columns[1])
        y_col == IF \E i \in 1..Len(y_given) : y_given[i] = ","
                 THEN strip(Split(y_given, ",")[1]) ELSE y_given
        x_found == _get_column_index(result.columns, x_col)
        y_found == _get_column_index(result.columns, y_col)
    IN  IF result_id = Nothing THEN [status |-> 400, text |-> "Missing result_id"]
        ELSE IF found = Nothing
        THEN [status |-> 404,
              text |-> "Chart data not found. The data may have expired. Please run the query again."]
        ELSE IF result.columns = <<>> \/ result.data_rows = <<>>
        THEN [status |-> 400, text |-> "No data available"]
        ELSE [status |-> 200, text |-> "chart page",
              x_idx |-> IF x_found = Nothing THEN 1 ELSE CHOOSE i \in x_found : TRUE,
              y_idx |-> IF y_found /= Nothing THEN CHOOSE i \in y_found : TRUE
                        ELSE IF Len(result.columns) > 1 THEN 2 ELSE 1]

-----------------------------------------------------------------------------
(* SpecPage: the views over a result store that fills past its capacity *)

\* How many results are stored beyond the capacity of the store.
PagePutsOver == 2

LongCell(n) == StrCell([i \in 1..n |-> IF i = n THEN "z" ELSE "x"])

SampleVizSpec ==
    [k \in {KeyOf("chart_type"), KeyOf("x_axis"), KeyOf("y_axis")} |->
        CASE k = KeyOf("chart_type") -> <<"bar">>
          [] k = KeyOf("x_axis") -> <<"Region">>
          [] k = KeyOf("y_axis") -> <<"Nonexistent">>]

TableOf(n) == [r \in 1..n |-> <<StrCell(<<"r">>), NumCell(r)>>]

\* The results stored: 45 rows; one row with a None cell and cells of 50 and
\* 51 characters; exactly one page; one row more than a page.
PageSamples ==
    << [columns |-> <<<<"Region">>, <<"Sales">>>>, data_rows |-> TableOf(45),
        viz_spec |-> Some(SampleVizSpec)],
       [columns |-> <<<<"Region">>, <<"Sales">>>>,
        data_rows |-> <<<<NoneCell, LongCell(DisplayLimit)>>,
                        <<LongCell(DisplayLimit + 1), NumCell(1200)>>>>,
        viz_spec |-> Nothing],
       [columns |-> <<<<"Region">>, <<"Sales">>>>, data_rows |-> TableOf(PAGE_SIZE),
        viz_spec |-> Nothing],
       [columns |-> <<<<"Sales">>>>, data_rows |-> TableOf(PAGE_SIZE + 1),
        viz_spec |-> Nothing] >>

\* The result the put numbered n stores.
SampleFor(n) == PageSamples[(n % Len(PageSamples)) + 1]

\* Results a card is made of that no store holds: no rows, no columns.
CardInputs ==
    {[columns |-> <<<<"Region">>>>, data_rows |-> <<>>, viz_spec |-> Nothing],
     [columns |-> <<>>, data_rows |-> TableOf(3), viz_spec |-> Nothing]}

Pages == {-1, 0, 1, 2, 3, 5}

\* The ids a request names: none, and the ids ProbeNumbers gives.
RequestIds ==
    {Nothing}
    \cup {Some(ResultId(n)) : n \in ProbeNumbers(_result_counter, ResultCapacity)}

\* _store_result at the end of a question that has a table.
PageStore ==
    /\ _result_counter < ResultCapacity + PagePutsOver
    /\ LET r == _store_result(query_results, _result_counter, SampleFor(_result_counter + 1))
       IN  /\ query_results' = r.store
           /\ _result_counter' = r.counter
           /\ issued' = [issued EXCEPT !.result = Append(@, r.id[2])]
           /\ last' = [op |-> "store", id |-> r.id]
    /\ UNCHANGED <<input, chart_images, _chart_counter, sessionVars, now, handlers, turns>>

\* A pagination card action.
Pagination(result_id, page) ==
    /\ LET r == _handle_pagination(query_results, result_id, page)
       IN  /\ query_results' = r.store
           /\ last' = [op |-> "pagination", result_id |-> result_id, page |-> page,
                       reply |-> r.reply]
    /\ UNCHANGED <<input, _result_counter, chart_images, _chart_counter, issued,
                   sessionVars, now, handlers, turns>>

\* A view_data card action.
ViewData(result_id) ==
    /\ LET r == _handle_pagination(query_results, result_id, 0)
       IN  /\ query_results' = r.store
           /\ last' = [op |-> "view_data", result_id |-> result_id, page |-> 0,
                       reply |-> r.reply]
    /\ UNCHANGED <<input, _result_counter, chart_images, _chart_counter, issued,
                   sessionVars, now, handlers, turns>>

\* A task/fetch invoke.
TaskFetch(result_id) ==
    /\ last' = [op |-> "task_fetch", result_id |-> result_id,
                reply |-> _handle_task_fetch(query_results, result_id)]
    /\ UNCHANGED <<input, storeVars, issued, sessionVars, now, handlers, turns>>

\* GET /interactive-chart/{result_id}
InteractiveChart(result_id) ==
    /\ last' = [op |-> "interactive_chart", result_id |-> result_id,
                reply |-> interactive_chart(query_results, result_id)]
    /\ UNCHANGED <<input, storeVars, issued, sessionVars, now, handlers, turns>>

\* create_paginated_card on a result that is in no store.
Card(result, page) ==
    /\ last' = [op |-> "card", result |-> result, page |-> page,
                reply |-> [kind |-> "card",
                           card |-> create_paginated_card(result, page, PAGE_SIZE).card]]
    /\ UNCHANGED <<input, storeVars, issued, sessionVars, now, handlers, turns>>

\* The page sizes a card is asked for: one row, a size that divides no sample,
\* the default, and one larger than every sample.
PageSizes == {1, 7, PAGE_SIZE, 50}

\* The rows of the cards from a page to the last one, following the Next
\* button of each card.
RECURSIVE FollowNext(_, _, _)
FollowNext(result, page, page_size) ==
    LET card == create_paginated_card(result, page, page_size).card
    IN  <<card.page_rows>>
        \o IF card.next THEN FollowNext(result, card.page + 1, page_size) ELSE <<>>

\* A stored result is paged through from the first card to the last.
Browse(result_id, page_size) ==
    /\ FindResult(query_results, result_id) /= Nothing
    /\ last' = [op |-> "browse", result_id |-> result_id, page_size |-> page_size,
                pages |-> FollowNext(CHOOSE r \in FindResult(query_results, result_id) : TRUE,
                                     0, page_size)]
    /\ UNCHANGED <<input, storeVars, issued, sessionVars, now, handlers, turns>>

NextPage ==
    \/ \E id \in RequestIds, page_size \in PageSizes : Browse(id, page_size)
    \/ PageStore
    \/ \E id \in RequestIds, page \in Pages : Pagination(id, page)
    \/ \E id \in RequestIds : ViewData(id)
    \/ \E id \in RequestIds : TaskFetch(id)
    \/ \E id \in RequestIds : InteractiveChart(id)
    \/ \E result \in CardInputs, page \in Pages : Card(result, page)

SpecPage == Init /\ [][NextPage]_vars

-----------------------------------------------------------------------------
(* Properties of the artifact stores, checked under SpecStore *)

Min(a, b) == IF a <= b THEN a ELSE b
Max(a, b) == IF a >= b THEN a ELSE b

\* The ids numbered counter-capacity+1 .. counter (or 1 .. counter), oldest first.
MostRecentIds(counter, capacity, Id(_)) ==
    [i \in 1..Min(counter, capacity) |-> Id(Max(counter - capacity, 0) + i)]

StrictlyIncreasing(seq) == \A i \in 1..(Len(seq) - 1) : seq[i] < seq[i + 1]

\* C1: each store holds at most its capacity (50 results, 100 charts) and,
\* once more than that many entries were put, exactly the most recently
\* inserted ones in insertion order; a lookup of any earlier id finds nothing;
\* and a lookup changes neither store, so it cannot change what is evicted next.
C1_FifoEviction ==
    /\ [](/\ Len(query_results) <= ResultCapacity
          /\ Len(chart_images) <= ChartCapacity
          /\ Keys(query_results) = MostRecentIds(_result_counter, ResultCapacity, ResultId)
          /\ Keys(chart_images) = MostRecentIds(_chart_counter, ChartCapacity, ChartId)
          /\ \A n \in 1..(_result_counter - ResultCapacity) :
                get_result(query_results, ResultId(n)) = Nothing
          /\ \A n \in 1..(_chart_counter - ChartCapacity) :
                get_chart(chart_images, ChartId(n)) = Nothing)
    /\ [][last'.op \in {"get_result", "get_chart"} => UNCHANGED storeVars]_vars

\* Both stores have evicted, and a lookup of an evicted result id found nothing.
C1_Witness ==
    /\ _result_counter > ResultCapacity
    /\ _chart_counter > ChartCapacity
    /\ last.op = "get_result"
    /\ last.id[2] <= _result_counter - ResultCapacity
    /\ last.ret = Nothing

\* C2: in each store the ids returned by successive puts are strictly
\* increasing, so none is issued twice, also after entries were evicted.
C2_IdsIncrease ==
    /\ StrictlyIncreasing(issued.result)
    /\ StrictlyIncreasing(issued.chart)
    /\ (last.op = "put_result" => last.id = ResultId(issued.result[Len(issued.result)]))
    /\ (last.op = "put_chart" => last.id = ChartId(issued.chart[Len(issued.chart)]))

\* A chart was put after the chart store had already evicted entries.
C2_Witness ==
    /\ last.op = "put_chart"
    /\ Len(issued.chart) > ChartCapacity + 1
    /\ Len(issued.result) > ResultCapacity + 1

-----------------------------------------------------------------------------
(* Properties of the token manager, checked under SpecToken *)

\* C3: an exchange for a subject whose cached token has not expired returns
\* the cached token, does not call the identity provider and leaves the cache
\* as it was.
C3_CacheHit ==
    (/\ last.op = "exchange"
     /\ \E e \in last.before : last.at < e.expires_at)
    => /\ ~last.external
       /\ \E e \in last.before : last.ret = e.token
       /\ last.user_id \in DOMAIN tm_user_tokens
       /\ Some(tm_user_tokens[last.user_id]) = last.before

\* A second exchange was answered from the cache.
C3_Witness ==
    /\ last.op = "exchange"
    /\ ~last.external
    /\ last.ret /= NoToken

\* The lifetime the provider declared in the last exchange.
DeclaredLifetime ==
    IF last.expires_in = Nothing THEN DefaultExpiresIn
    ELSE CHOOSE x \in last.expires_in : TRUE

\* C4 as stated: a cached token is served at every time now <= expiresAt.
C4_ServedUntilExpiresAt ==
    (/\ last.op = "exchange"
     /\ \E e \in last.before : last.at <= e.expires_at)
    => ~last.external

\* C4: a token obtained at time t with lifetime expires_in is cached with
\* expiresAt = t + expires_in - 60, and a cached token is served exactly when
\* now < expiresAt: at now = expiresAt the provider is called again.
C4_ServedBeforeExpiresAt ==
    last.op = "exchange" =>
        /\ ~last.external <=> (\E e \in last.before : last.at < e.expires_at)
        /\ last.outcome = "token" =>
              /\ last.user_id \in DOMAIN tm_user_tokens
              /\ tm_user_tokens[last.user_id].expires_at = now + DeclaredLifetime - 60
              /\ tm_user_tokens[last.user_id].token = last.ret

\* An exchange at the very second a cached token expires called the provider.
C4_Witness ==
    /\ last.op = "exchange"
    /\ \E e \in last.before : last.at = e.expires_at
    /\ last.external
    /\ last.outcome = "token"

\* C6: clear_user_token removes the subject's entry whether or not there is
\* one and whether or not it has expired, leaves every other subject's entry
\* as it was, and an exchange for a subject without an entry calls the provider.
C6_Invalidate ==
    /\ last.op = "clear" =>
          /\ last.user_id \notin DOMAIN tm_user_tokens
          /\ DOMAIN tm_user_tokens = DOMAIN last.cache_before \ {last.user_id}
          /\ \A v \in DOMAIN tm_user_tokens : tm_user_tokens[v] = last.cache_before[v]
    /\ (last.op = "exchange" /\ last.before = Nothing) => last.external

\* A token that was still valid was cleared while another subject's stayed.
C6_Witness ==
    /\ last.op = "clear"
    /\ last.user_id \in DOMAIN last.cache_before
    /\ last.cache_before[last.user_id].expires_at > last.at
    /\ tm_user_tokens /= EmptyDict

-----------------------------------------------------------------------------
(* Properties of the bot, checked under Spec *)

InSeq(x, seq) == \E i \in 1..Len(seq) : seq[i] = x

C7_NoCallWithoutToken ==
    /\ [](/\ \A h \in HandlerIds : handlers[h].pc \in {"typing", "genie_wait"} =>
                /\ handlers[h].databricks_token /= NoToken
                /\ handlers[h].databricks_token[2] = handlers[h].user_id
                /\ handlers[h].user_id \in Users
          /\ last.op = "query_started" => last.outcome \in {"token", "cached"}
          /\ last.op = "genie_call" => last.token = DatabricksToken(last.user_id, 1)
          /\ last.op = "exchange_failed" => handlers[last.handler].pc = "auth_failed"
          /\ (last.op = "turn_done" /\ last.branch \in {"no_token", "auth_failed"}) =>
                /\ last.replies[Len(last.replies)] = "signin_card"
                /\ last.stored = Nothing)
    /\ [][\A h \in HandlerIds :
            /\ (handlers'[h].pc = "typing" /\ handlers[h].pc /= "typing") =>
                  /\ handlers[h].pc = "idle"
                  /\ last'.op = "query_started"
                  /\ last'.user_id = handlers'[h].user_id
                  /\ handlers'[h].user_id \in DOMAIN user_tokens
            /\ (handlers'[h].pc = "genie_wait" /\ handlers[h].pc /= "genie_wait") =>
                  /\ handlers[h].pc = "typing"
                  /\ last'.op = "genie_call"
                  /\ last'.token = handlers[h].databricks_token
            /\ handlers[h].pc = "auth_failed" => handlers'[h].pc \in {"auth_failed", "idle"}]_vars

\* The assistant was called for one user while the other user's exchange had failed.
C7_Witness ==
    /\ last.op = "genie_call"
    /\ \E h \in HandlerIds : handlers[h].pc = "auth_failed"

\* C8 as stated: a conversation id is removed only by the new-conversation command.
C8_ClearedOnlyByNewConversation ==
    [][\A u \in Users :
          (u \in DOMAIN user_conversations /\ u \notin DOMAIN user_conversations') =>
              /\ last'.op = "turn_done"
              /\ last'.branch = "new"
              /\ last'.user_id = u]_vars

\* C8: a user's conversation id is removed only by that user's
\* new-conversation command or sign-out command; no other command, message or
\* failure removes it.
C8_ClearedOnlyByNewOrSignOut ==
    [][\A u \in Users :
          (u \in DOMAIN user_conversations /\ u \notin DOMAIN user_conversations') =>
              /\ last'.op = "turn_done"
              /\ last'.branch \in {"new", "signout"}
              /\ last'.user_id = u]_vars

\* A sign-out removed the conversation id the user had.
C8_Witness ==
    /\ last.op = "turn_done"
    /\ last.branch = "signout"
    /\ last.conversation_before /= None
    /\ last.user_id \notin DOMAIN user_conversations

\* C9: when a chart card went out for an answer with rows, the result is in
\* the result store and the chart image is in the chart store.
C9_BothArtifactsRegistered ==
    (/\ last.op = "turn_done"
     /\ InSeq("chart_card", last.replies))
    => /\ \E id \in last.stored : get_result(query_results, id) /= Nothing
       /\ \E i \in 1..Len(chart_images) : Some(chart_images[i].value) = last.chart_image

\* The steps in which a request fails: the exchange, the call to the
\* assistant, the rendering of the chart, or a send.
FailureStep ==
    \/ last'.op = "exchange_failed"
    \/ /\ last'.op = "turn_done"
       /\ \/ last'.branch \in {"auth_failed", "auth_send_raised", "genie_error", "exception"}
          \/ InSeq("chart_note", last'.replies)

EntryOf(d, u) == IF u \in DOMAIN d THEN Some(d[u]) ELSE Nothing

-----------------------------------------------------------------------------
(* Properties of the parser, checked under SpecParse *)

\* The first directive block of the input: the positions of its markers
\* (<<0, 0>> without a block), its text, and whether it is laid out on lines.
FirstBlock == SearchBlock(input, 1)
FirstBlockText == strip(SubSeq(input, FirstBlock[1] + 1, FirstBlock[2] - 1))
MultiLine == \E i \in 1..Len(FirstBlockText) : FirstBlockText[i] = NL
Parsed == last.op = "parse" /\ last.ret.viz_spec /= Nothing
ParsedSpec == CHOOSE spec \in last.ret.viz_spec : TRUE
KnownKeys == {KeyOf(known_fields[i]) : i \in 1..Len(known_fields)}

\* C13: when the text has no directive block, or its block names one of
\* chart_type, x_axis, y_axis nowhere, parse returns no spec and the text as
\* it was given, markers and block included.
C13_IncompleteUnchanged ==
    (/\ last.op = "parse"
     /\ \/ FirstBlock = <<0, 0>>
        \/ \E r \in 1..Len(required_fields) :
              \A i \in (FirstBlock[1] + 1)..(FirstBlock[2] - 1) :
                 lower(input[i]) /= required_fields[r])
    => /\ last.ret.viz_spec = Nothing
       /\ last.ret.clean_text = input

\* A block with chart_type and x_axis but without y_axis was refused, and the
\* text returned still holds its markers.
C13_Witness ==
    /\ last.op = "parse"
    /\ FirstBlock /= <<0, 0>>
    /\ \E i, j \in (FirstBlock[1] + 1)..(FirstBlock[2] - 1) :
          input[i] = "chart_type" /\ input[j] = "x_axis"
    /\ \A i \in 1..Len(input) : input[i] /= "y_axis"
    /\ last.ret.viz_spec = Nothing
    /\ last.ret.clean_text[1] = VizStart

\* The text of the example of C14, its spec and its cleaned text.
ExampleText ==
    <<"answer", SP, VizStart, SP, "chart_type", ":", SP, "bar", SP, "x_axis", ":", SP,
      "Region", SP, "y_axis", ":", SP, "Sales", SP, VizEnd, SP, "more">>
ExampleSpec ==
    [k \in {<<"chart_type">>, <<"x_axis">>, <<"y_axis">>} |->
        CASE k = <<"chart_type">> -> <<"bar">>
          [] k = <<"x_axis">> -> <<"Region">>
          [] k = <<"y_axis">> -> <<"Sales">>]

\* C14: in the single-line layout the value of each field in the spec starts
\* after the field's name and colon and runs to the first place that is the
\* end of the block or is followed by another known field name and a colon;
\* the example text parses to {chart_type: bar, x_axis: Region, y_axis: Sales}
\* and the cleaned text "answer  more".
C14_SingleLineCapture ==
    /\ (Parsed /\ ~MultiLine) =>
          LET block == FirstBlockText
              spec == ParsedSpec
          IN  \A f \in 1..Len(known_fields) :
                 KeyOf(known_fields[f]) \in DOMAIN spec =>
                    \E p \in 1..Len(block) :
                       LET c == SkipSpaces(block, SkipSpaces(block, p + 1) + 1)
                           e == c + Len(spec[KeyOf(known_fields[f])]) - 1
                       IN  /\ FieldAt(block, p, known_fields[f])
                           /\ c <= e
                           /\ e <= Len(block)
                           /\ spec[KeyOf(known_fields[f])] = SubSeq(block, c, e)
                           /\ LookaheadAt(block, e, known_fields[f])
                           /\ \A d \in c..(e - 1) : ~LookaheadAt(block, d, known_fields[f])
    /\ (last.op = "parse" /\ input = ExampleText) =>
          /\ last.ret.viz_spec = Some(ExampleSpec)
          /\ last.ret.clean_text = <<"answer", SP, SP, "more">>

\* The example text was parsed.
C14_Witness ==
    /\ last.op = "parse"
    /\ input = ExampleText
    /\ last.ret.viz_spec /= Nothing

\* C15 as stated: every key of a spec parse returns is one of the seven
\* field names, in both layouts.
C15_KeysInFixedSet ==
    Parsed => DOMAIN ParsedSpec \subseteq KnownKeys

\* C15: every key of a spec parse returns is lower-case; in the single-line
\* layout it is one of the seven field names; in the multi-line layout it is
\* the trimmed, lower-cased text before the first colon of a line of the
\* block, whatever that text is.
C15_KeysLowerCase ==
    Parsed =>
        /\ \A k \in DOMAIN ParsedSpec : LowerAll(k) = k
        /\ ~MultiLine => DOMAIN ParsedSpec \subseteq KnownKeys
        /\ MultiLine =>
              \A k \in DOMAIN ParsedSpec :
                 \E n \in 1..Len(Split(FirstBlockText, NL)) :
                    LET line == strip(Split(FirstBlockText, NL)[n])
                    IN  /\ Len(Split(line, ":")) > 1
                        /\ k = LowerAll(strip(Split(line, ":")[1]))

\* A multi-line block with the line "Color: red" gave a spec with the key color.
C15_Witness ==
    /\ Parsed
    /\ MultiLine
    /\ <<"color">> \in DOMAIN ParsedSpec

\* The second block of the input, when there is one.
FollowingBlock == SearchBlock(input, FirstBlock[2] + 1)
TwoBlocks == FirstBlock /= <<0, 0>> /\ FollowingBlock /= <<0, 0>>

\* C16 as stated: only the parsed block is removed, the rest of the text stays.
C16_RemovesParsedBlockOnly ==
    (Parsed /\ TwoBlocks) =>
        last.ret.clean_text =
            strip(SubSeq(input, 1, FirstBlock[1] - 1)
                  \o SubSeq(input, FirstBlock[2] + 1, Len(input)))

\* C16: when the text holds two directive blocks, parse builds the spec from
\* the first block only (and returns none when the first block is
\* incomplete); on success it removes both blocks, markers included, and
\* returns the rest of the text in place, trimmed.
C16_FirstBlockParsedAllRemoved ==
    (last.op = "parse" /\ TwoBlocks) =>
        /\ last.ret.viz_spec =
              parse_viz_spec(SubSeq(input, FirstBlock[1], FirstBlock[2])).viz_spec
        /\ Parsed =>
              last.ret.clean_text =
                  strip(SubSeq(input, 1, FirstBlock[1] - 1)
                        \o SubSeq(input, FirstBlock[2] + 1, FollowingBlock[1] - 1)
                        \o SubSeq(input, FollowingBlock[2] + 1, Len(input)))
        /\ ~Parsed => last.ret.clean_text = input

\* A text with two blocks was parsed with the first block's chart type.
C16_Witness ==
    /\ Parsed
    /\ TwoBlocks
    /\ ParsedSpec[<<"chart_type">>] = <<"bar">>
    /\ last.ret.clean_text = <<"answer", SP, SP, "and", SP, SP, "more">>

-----------------------------------------------------------------------------
(* Properties of the chart generator, checked under SpecChart *)

\* The x name and the first y name of the spec given to generate.
GivenX == input.viz_spec[KeyOf("x_axis")]
GivenY == input.viz_spec[KeyOf("y_axis")]
FirstY ==
    LET commas == {i \in 1..Len(GivenY) : GivenY[i] = ","}
    IN  IF commas = {} THEN GivenY
        ELSE strip(SubSeq(GivenY, 1, (CHOOSE i \in commas : \A j \in commas : i <= j) - 1))
NamesColumn(name, i) == LowerAll(input.columns[i]) = LowerAll(name)
Unresolved(name) == \A i \in 1..Len(input.columns) : ~NamesColumn(name, i)

\* C12: generate returns None when the x_axis name or the first y_axis name
\* equals no column name case-insensitively, and whenever it draws, the two
\* columns it draws from are the first ones that carry these names.
C12_UnresolvedColumnGivesNone ==
    last.op = "generate" =>
        /\ (Unresolved(GivenX) \/ Unresolved(FirstY)) => last.ret = Nothing
        /\ \A drawn \in last.ret :
              /\ NamesColumn(GivenX, drawn.x_idx)
              /\ NamesColumn(FirstY, drawn.y_idx)
              /\ \A i \in 1..(drawn.x_idx - 1) : ~NamesColumn(GivenX, i)
              /\ \A i \in 1..(drawn.y_idx - 1) : ~NamesColumn(FirstY, i)

\* A spec whose x_axis names no column, over rows that a resolved spec would
\* have drawn, gave None.
C12_Witness ==
    /\ last.op = "generate"
    /\ GivenX = <<"Nonexistent">>
    /\ ~Unresolved(FirstY)
    /\ Len(input.data_rows) = 10
    /\ ~input.renderer_raises
    /\ last.ret = Nothing

\* The pie chart of the ten categories of C18 was asked for and drawn.
TenCategoryPie ==
    /\ last.op = "generate"
    /\ LowerAll(input.viz_spec[KeyOf("chart_type")]) = <<"pie">>
    /\ Len(input.data_rows) = 10
    /\ last.ret /= Nothing
    /\ \A drawn \in last.ret :
          /\ input.columns[drawn.x_idx] = <<"Region">>
          /\ input.columns[drawn.y_idx] = <<"Sales">>

\* C18 as stated: the ten categories are drawn as the top six plus an Other
\* slice of 21.
C18_TopSixOther21 ==
    TenCategoryPie =>
        \A drawn \in last.ret :
           /\ Len(drawn.chart.y_data) = 7
           /\ drawn.chart.y_data[7] = 21
           /\ drawn.chart.x_data[7] = StrCell(<<"Other">>)

\* C18: a pie chart of ten categories with values 50, 40, 30, 20, 10, 8, 6,
\* 4, 2, 1 is drawn as the top seven categories, largest first, plus one
\* Other slice of 7 (4 + 2 + 1).
C18_TopSevenOther7 ==
    TenCategoryPie =>
        \A drawn \in last.ret :
           /\ drawn.chart.kind = "pie"
           /\ drawn.chart.y_data = <<50, 40, 30, 20, 10, 8, 6, 7>>
           /\ drawn.chart.x_data =
                 [i \in 1..8 |-> IF i = 8 THEN StrCell(<<"Other">>)
                                 ELSE StrCell(<<TenNames[i]>>)]

\* The ten categories were drawn as a pie from rows given smallest first.
C18_Witness ==
    /\ TenCategoryPie
    /\ input.data_rows[1][2] = NumCell(1)
    /\ KeyOf("sort") \notin DOMAIN input.viz_spec

RECURSIVE SumSeq(_)
SumSeq(seq) == IF seq = <<>> THEN 0 ELSE seq[1] + SumSeq(Tail(seq))

\* A pie was drawn from rows that all have an x value and a number as y: the
\* rows are the categories.
PieOfAllRows ==
    /\ last.op = "generate"
    /\ LowerAll(input.viz_spec[KeyOf("chart_type")]) = <<"pie">>
    /\ last.ret /= Nothing
    /\ \A drawn \in last.ret : \A r \in 1..Len(input.data_rows) :
          /\ input.data_rows[r][drawn.x_idx] /= NoneCell
          /\ input.data_rows[r][drawn.y_idx].kind = "num"

\* The drawn slices are the seven categories with the largest values, largest
\* first, and one more slice named Other that holds the sum of all the others.
TopSevenAndOther(drawn) ==
    LET rows == input.data_rows
        X(r) == rows[r][drawn.x_idx]
        Y(r) == rows[r][drawn.y_idx].num
        x_data == drawn.chart.x_data
        y_data == drawn.chart.y_data
        kept == {r \in 1..Len(rows) : \E i \in 1..7 : x_data[i] = X(r) /\ y_data[i] = Y(r)}
    IN  /\ Len(x_data) = 8
        /\ Len(y_data) = 8
        /\ Cardinality(kept) = 7
        /\ \A i \in 1..6 : y_data[i] >= y_data[i + 1]
        /\ \A r \in (1..Len(rows)) \ kept : Y(r) <= y_data[7]
        /\ x_data[8] = StrCell(<<"Other">>)
        /\ y_data[8] = SumSeq([r \in 1..Len(rows) |-> Y(r)]) - SumSeq(SubSeq(y_data, 1, 7))

\* The drawn slices are the categories, one slice each.
EveryCategory(drawn) ==
    LET rows == input.data_rows
    IN  /\ Len(drawn.chart.x_data) = Len(rows)
        /\ Len(drawn.chart.y_data) = Len(rows)
        /\ \A r \in 1..Len(rows) : \E i \in 1..Len(rows) :
              /\ drawn.chart.x_data[i] = rows[r][drawn.x_idx]
              /\ drawn.chart.y_data[i] = rows[r][drawn.y_idx].num

SlicesAddUp(drawn) ==
    SumSeq(drawn.chart.y_data)
       = SumSeq([r \in 1..Len(input.data_rows) |-> input.data_rows[r][drawn.y_idx].num])

\* C28 as stated: a pie of more than 7 categories is drawn as the 7 largest
\* and Other, and the slices add up to the total.
C28_CollapseAboveSeven ==
    PieOfAllRows =>
       \A drawn \in last.ret :
          /\ SlicesAddUp(drawn)
          /\ Len(input.data_rows) > 7 => TopSevenAndOther(drawn)

\* C28: a pie of more than 8 categories is drawn as the 7 largest, largest
\* first, and Other with the sum of the rest; a pie of 8 categories or fewer
\* is drawn with one slice per category and no Other; in both cases the
\* slices add up to the total of the input.
C28_CollapseAboveEight ==
    PieOfAllRows =>
       \A drawn \in last.ret :
          /\ SlicesAddUp(drawn)
          /\ Len(input.data_rows) > max_slices => TopSevenAndOther(drawn)
          /\ Len(input.data_rows) <= max_slices => EveryCategory(drawn)

\* Nine categories given largest first were drawn as seven and Other = 4 + 2.
C28_Witness ==
    /\ PieOfAllRows
    /\ Len(input.data_rows) = max_slices + 1
    /\ input.data_rows[1][2] = NumCell(50)
    /\ \A drawn \in last.ret :
          /\ drawn.y_idx = 2
          /\ drawn.chart.y_data = <<50, 40, 30, 20, 10, 8, 6, 6>>

\* A line chart was drawn: it shows every (x, y) pair, in the order generate
\* left them in.
LineDrawn ==
    /\ last.op = "generate"
    /\ last.ret /= Nothing
    /\ \A drawn \in last.ret : drawn.chart.kind = "line"

\* The (x, y) pairs of the rows that have an x value, in the order of the rows.
InputPairs(drawn) ==
    LET with_x == SelectSeq(input.data_rows, LAMBDA row : row[drawn.x_idx] /= NoneCell)
    IN  [r \in 1..Len(with_x) |->
            <<with_x[r][drawn.x_idx], _to_numeric(with_x[r][drawn.y_idx])>>]

\* The place of the pair numbered k after a stable sort by y: behind every
\* pair that comes first by y and behind the equal ones given before it.
PlaceOf(pairs, k, desc) ==
    1 + Cardinality({j \in 1..Len(pairs) :
                        IF desc THEN pairs[j][2] > pairs[k][2] ELSE pairs[j][2] < pairs[k][2]})
      + Cardinality({j \in 1..(k - 1) : pairs[j][2] = pairs[k][2]})

SortGiven ==
    IF KeyOf("sort") \in DOMAIN input.viz_spec
    THEN LowerAll(input.viz_spec[KeyOf("sort")]) ELSE <<"none">>

\* C29: with sort asc or desc (in any case) the pairs drawn are the input
\* pairs, each x with its own y, ordered by y in that direction, equal y in
\* input order; with any other sort value, or none, they are in input order.
C29_StableSortByY ==
    LineDrawn =>
       \A drawn \in last.ret :
          LET pairs == InputPairs(drawn)
              out == Zip(drawn.chart.x_data, drawn.chart.y_data)
          IN  /\ Len(out) = Len(pairs)
              /\ IF SortGiven \in {<<"asc">>, <<"desc">>}
                 THEN \A k \in 1..Len(pairs) :
                         out[PlaceOf(pairs, k, SortGiven = <<"desc">>)] = pairs[k]
                 ELSE out = pairs

\* Sixteen rows with equal y values were drawn sorted descending.
C29_Witness ==
    /\ LineDrawn
    /\ SortGiven = <<"desc">>
    /\ Len(input.data_rows) = max_bars + RowsOverBars
    /\ \A drawn \in last.ret :
          /\ drawn.y_idx = 2
          /\ drawn.chart.y_data[1] = 2
          /\ drawn.chart.x_data[1] = NumCell(2)
          /\ drawn.chart.x_data[2] = NumCell(5)

-----------------------------------------------------------------------------
(* Properties of the bot's result views *)

\* C11: when a directive was parsed, the result has rows and columns and was
\* stored, and the chart generator returned None, the handler's last two
\* messages of the turn are the note that no chart could be made and the
\* table card of the stored result, and no error message is sent.
C11_ChartFallbackToTable ==
    (/\ last.op = "turn_done"
     /\ last.branch = "query"
     /\ last.chart_image = Nothing)
    => \A id \in last.stored :
          /\ get_result(query_results, id) /= Nothing
          /\ \A stored \in get_result(query_results, id) :
                stored.viz_spec =>
                   /\ Len(last.replies) >= 2
                   /\ SubSeq(last.replies, Len(last.replies) - 1, Len(last.replies))
                         = <<"chart_note", "table_card">>
                   /\ ~InSeq("error_text", last.replies)
                   /\ ~InSeq("chart_card", last.replies)

\* A turn with a parsed directive and a stored result ended without a chart.
C11_Witness ==
    /\ last.op = "turn_done"
    /\ last.branch = "query"
    /\ last.chart_image = Nothing
    /\ \E id \in last.stored : \E stored \in get_result(query_results, id) : stored.viz_spec
    /\ InSeq("table_card", last.replies)

-----------------------------------------------------------------------------
(* Properties of the paginated card, checked under SpecPage *)

\* The least number of pages of d rows that hold n rows.
CeilDiv(n, d) == CHOOSE k \in 0..n : k * d >= n /\ (k - 1) * d < n

\* The result a card of the last step was made of.
CardResult ==
    IF last.op = "card" THEN last.result
    ELSE CHOOSE r \in FindResult(query_results, last.result_id) : TRUE

CardShown ==
    /\ last.op \in {"pagination", "view_data", "card"}
    /\ last.reply.kind = "card"

\* C17: a card of a result of n rows has max(1, ceil(n / PAGE_SIZE)) pages,
\* shows the requested page index clamped into [0, pages - 1], and holds
\* exactly the rows at the positions [index * PAGE_SIZE, index * PAGE_SIZE +
\* PAGE_SIZE) that exist; for 45 rows there are 3 pages and a request for
\* page 5 gives the rows 40..44, counting from 0.
C17_PageArithmetic ==
    CardShown =>
       LET rows == CardResult.data_rows
           n == Len(rows)
           totalPages == Max(1, CeilDiv(n, PAGE_SIZE))
           index == IF last.page < 0 THEN 0
                    ELSE IF last.page > totalPages - 1 THEN totalPages - 1
                    ELSE last.page
           held == {i \in 0..(PAGE_SIZE - 1) : index * PAGE_SIZE + i < n}
           card == last.reply.card
       IN  /\ card.total_pages = totalPages
           /\ card.total_rows = n
           /\ card.page = index
           /\ card.page_rows = [i \in 1..Cardinality(held) |-> rows[index * PAGE_SIZE + i]]
           /\ (n = 45 => card.total_pages = 3)
           /\ (n = 45 /\ last.page = 5 => card.page_rows = SubSeq(rows, 41, 45))

\* Page 5 of a stored result of 45 rows was requested and the last five rows
\* came back.
C17_Witness ==
    /\ last.op = "pagination"
    /\ last.reply.kind = "card"
    /\ last.page = 5
    /\ last.reply.card.total_rows = 45
    /\ last.reply.card.page = 2
    /\ Len(last.reply.card.page_rows) = 5

\* The last step was a request for a view of a stored result.
ViewRequested ==
    last.op \in {"pagination", "view_data", "task_fetch", "interactive_chart"}

\* The id named by the request is one the store does not hold: never issued,
\* or issued and evicted since.
NamesMissingId ==
    /\ ViewRequested
    /\ last.result_id /= Nothing
    /\ \A id \in last.result_id :
          \/ id[2] > _result_counter
          \/ id[2] <= _result_counter - ResultCapacity

\* The reply says that the data was not found or has expired and asks to run
\* the query again.
NotFoundReply ==
    CASE last.op \in {"pagination", "view_data"} ->
            /\ last.reply.kind = "text"
            /\ last.reply.text = "Sorry, I couldn't find the data. Please run the query again."
      [] last.op = "task_fetch" ->
            /\ last.reply.kind = "task_message"
            /\ last.reply.text = "Chart data has expired. Please run the query again."
      [] last.op = "interactive_chart" ->
            /\ last.reply.status = 404
            /\ last.reply.text
                  = "Chart data not found. The data may have expired. Please run the query again."
      [] OTHER -> FALSE

\* C19: a pagination, view-data, task-fetch or interactive-chart request that
\* names an id the result store does not hold is answered with the message
\* that the data was not found or has expired, and the step changes neither
\* the stores nor the session state.
C19_MissingIdAnswered ==
    [][NamesMissingId' =>
          /\ NotFoundReply'
          /\ UNCHANGED <<storeVars, issued, sessionVars>>]_vars

\* A page of an evicted result was requested and the not-found text came back.
C19_Witness ==
    /\ last.op = "pagination"
    /\ NamesMissingId
    /\ \A id \in last.result_id : id[2] >= 1 /\ id[2] <= _result_counter - ResultCapacity
    /\ last.reply.kind = "text"
    /\ Len(query_results) = ResultCapacity

\* Every result the store holds has the columns and the rows that were put
\* under its id.
StoredAsPut ==
    \A i \in 1..Len(query_results) :
       LET id == query_results[i].key
       IN  \A held \in get_result(query_results, id) :
              /\ held.columns = SampleFor(id[2]).columns
              /\ held.data_rows = SampleFor(id[2]).data_rows

\* C20: a stored result is never changed after the put: at every point of any
\* sequence of pagination, view-data, task-fetch and interactive-chart
\* requests, cards with shortened cells included, get(id) returns the columns
\* and rows that were stored, and no such request changes the store.
C20_StoredResultUnchanged ==
    [](StoredAsPut) /\ [][ViewRequested' => UNCHANGED query_results]_vars

\* A card showed a cell of 51 characters shortened to 50 and an ellipsis while
\* the store still holds the cell in full.
C20_Witness ==
    /\ last.op \in {"pagination", "view_data"}
    /\ last.reply.kind = "card"
    /\ \E r \in 1..Len(last.reply.card.table) :
          /\ Len(last.reply.card.table[r][1]) = DisplayLimit + 3
          /\ \A held \in FindResult(query_results, last.result_id) :
                held.data_rows[r][1] = LongCell(DisplayLimit + 1)

-----------------------------------------------------------------------------
(* Properties of the event loop, checked under SpecLoop *)

\* A render for h is in progress while the handler g of another user waits
\* for the event loop to start its Genie call.
OtherUserReady(h, g) ==
    /\ handlers[h].pc = "rendering"
    /\ handlers[g].pc = "typing"
    /\ handlers[g].user_id /= handlers[h].user_id

\* C21: while the chart of one user's request is being rendered, the handler
\* of another user that is ready to go on can take its step.
C21_RenderDoesNotBlockOthers ==
    \A h, g \in HandlerIds : OtherUserReady(h, g) => ENABLED LoopGenieCall(g)

-----------------------------------------------------------------------------
(* Properties of the failure texts, checked under SpecLeak *)

\* C22: two failures of the Genie call that differ only in the internal
\* exception message give the same text to the user.
C22_SameTextWhateverException ==
    last.op = "failed" => last.first = last.second

-----------------------------------------------------------------------------
(* Properties of concurrent handlers, checked under Spec *)

\* C23: under every interleaving of the handlers the ids returned by the puts
\* are all different, the store holds exactly the results put and not evicted
\* as the oldest, it is within its capacity, and the result a handler has just
\* put is found under the id the put returned.
C23_PutIsAtomic ==
    /\ \A i, j \in 1..Len(issued.result) :
          issued.result[i] = issued.result[j] => i = j
    /\ Len(issued.result) = _result_counter
    /\ Len(query_results) <= ResultCapacity
    /\ Keys(query_results)
          = [i \in 1..Min(Len(issued.result), ResultCapacity) |->
                ResultId(issued.result[Max(Len(issued.result) - ResultCapacity, 0) + i])]
    /\ (last.op = "turn_done" =>
           \A id \in last.stored :
              /\ id = ResultId(issued.result[Len(issued.result)])
              /\ get_result(query_results, id) /= Nothing)

\* A handler put the second result while the handler of another turn was
\* waiting for its Genie call.
C23_Witness ==
    /\ last.op = "turn_done"
    /\ last.stored = Some(ResultId(2))
    /\ Len(query_results) = 2
    /\ \E g \in HandlerIds : handlers[g].pc = "genie_wait"

\* Handler h runs a question of user u that has not returned yet.
InFlight(h, u) ==
    /\ handlers[h].pc \in {"typing", "genie_wait"}
    /\ handlers[h].user_id = u

\* C24: when a new-conversation command has just been processed for a user
\* and the next step is the end of a question of the same user that was in
\* flight at that time, the user's conversation id is still absent.
C24_InFlightQuestionLeavesCleared ==
    [][\A h \in HandlerIds :
          (/\ last.op = "turn_done"
           /\ last.branch = "new"
           /\ InFlight(h, last.user_id)
           /\ last'.op = "turn_done"
           /\ last'.handler = h)
          => last.user_id \notin DOMAIN user_conversations']_vars

\* C25: in the step that follows the processing of a user's sign-out, unless
\* it is a signin/tokenExchange invoke of that user, no Genie call is started
\* for the user, and the user's sign-in token, downstream token and
\* conversation id are absent after it.
C25_NothingAfterSignOut ==
    [][(/\ last.op = "turn_done"
        /\ last.branch = "signout"
        /\ ~(last'.op = "invoke" /\ last'.user_id = last.user_id))
       => /\ ~(last'.op = "genie_call" /\ last'.user_id = last.user_id)
          /\ last.user_id \notin DOMAIN user_tokens'
          /\ last.user_id \notin DOMAIN tm_user_tokens'
          /\ last.user_id \notin DOMAIN user_conversations']_vars

\* The replies a user can read: the typing indicator is none.
VisibleReplies ==
    {"text", "text_with_sql", "chart_card", "chart_note", "table_card", "no_results",
     "error_text"}

\* C26: the turn of a question that passed authentication and is no command
\* ends with at least one reply the user can read, whatever the call returned.
C26_QuestionGetsReply ==
    (/\ last.op = "turn_done"
     /\ last.branch \in {"query", "genie_error", "exception"})
    => \E i \in 1..Len(last.replies) : last.replies[i] \in VisibleReplies

\* C27: the step in which a handler gets an error result from its Genie call
\* (a FAILED message, or an exception turned into an error result) leaves the
\* user's conversation id as it was, absent or present, and adds nothing to
\* either store, whether or not a send raises afterwards.
C27_ErrorResultFrame ==
    [][\A h \in HandlerIds : \A r \in GenieResults(h) : \A failing_send \in 0..3 :
          (r.error /\ GenieReturn(h, r, Nothing, failing_send))
          => /\ EntryOf(user_conversations', handlers[h].user_id)
                   = EntryOf(user_conversations, handlers[h].user_id)
             /\ UNCHANGED <<storeVars, issued>>]_vars

\* A follow-up failed for a user who had a conversation and a stored result;
\* the conversation is the one the user had.
C27_Witness ==
    /\ last.op = "turn_done"
    /\ last.branch = "genie_error"
    /\ last.conversation_before /= None
    /\ DictGet(user_conversations, last.user_id, None) = last.conversation_before
    /\ query_results /= <<>>

RECURSIVE Concat(_)
Concat(seqs) == IF seqs = <<>> THEN <<>> ELSE seqs[1] \o Concat(Tail(seqs))

\* C30: the pages 0 to totalPages - 1 of a stored result, for a page size of
\* at least 1, partition its rows: there are max(1, ceil(rows / pageSize))
\* pages, each but the last has exactly pageSize rows, the last has at least
\* one, no row is on two pages, and the pages in order give the stored rows.
C30_PagesPartitionRows ==
    last.op = "browse" =>
       LET rows == (CHOOSE r \in FindResult(query_results, last.result_id) : TRUE).data_rows
           pages == last.pages
           n == Len(pages)
       IN  /\ n = Max(1, CeilDiv(Len(rows), last.page_size))
           /\ \A p \in 1..(n - 1) : Len(pages[p]) = last.page_size
           /\ Len(pages[n]) \in 1..last.page_size
           /\ \A p, q \in 1..n : \A i \in 1..Len(pages[p]), j \in 1..Len(pages[q]) :
                 pages[p][i] = pages[q][j] => (p = q /\ i = j)
           /\ Concat(pages) = rows

\* The 45 rows were paged through seven at a time: seven pages, the last of
\* three rows.
C30_Witness ==
    /\ last.op = "browse"
    /\ last.page_size = 7
    /\ Len(last.pages) = 7
    /\ Len(last.pages[7]) = 3
    /\ Len(Concat(last.pages)) = 45

====
